---- MODULE Spec2Model ----
(***************************************************************************)
(* Plume (Obsidian plugin for the Shavian alphabet): the live decoration   *)
(* engine of the editor view plugin, the dictionary store with its load /  *)
(* save persistence, the batch translation of selected Latin text and the  *)
(* unknown-word capture flow, modelled from the plugin's main source file. *)
(*                                                                         *)
(* Text is a sequence of characters.  Offsets are UTF-16 code units, as in *)
(* JavaScript strings and CodeMirror positions: a Shavian letter           *)
(* (U+10450-U+1047F) is a surrogate pair and occupies two offsets, every   *)
(* other character of the model occupies one.  The source file stores its  *)
(* non-ASCII literals double-encoded; they are read as the characters they *)
(* encode: the interpunct U+00B7 and the angle quotes U+2039 / U+203A.     *)
(***************************************************************************)
EXTENDS Integers, Sequences, FiniteSets, TLC

VARIABLES
    doc,            \* view.state.doc: the editor buffer
    cursor,         \* view.state.selection.main.head
    decorations,    \* the view plugin's DecorationSet
    viewUpdate,     \* the ViewUpdate handed to the view plugin, or NoUpdate
    pc,             \* position of the running handler
    settings,       \* ShavianPlugin.settings
    forceRefresh,   \* ShavianPlugin.forceRefresh
    dictionary,     \* ShavianPlugin.dictionary, in Map insertion order
    file,           \* shavian-dictionary.json in the vault
    fileAtLoad,     \* what loadDictionary read
    writes,         \* adapter.write calls in flight
    saveCalls,      \* number of saveDictionary calls so far
    call,           \* the last dictionary handler invoked, and how many were
    notices,        \* Notice texts shown so far
    raised,         \* an exception left a handler
    now,            \* the clock read by new Date()
    consoleErrors,  \* number of console.error calls so far
    anchor,         \* view.state.selection.main.anchor
    translation,    \* the last call of translateLatinToShavian: input and result
    isDefiningWord, \* ShavianPlugin.isDefiningWord
    modals,         \* the open WordDefinitionModals, bottom to top
    timers          \* the pending setTimeout callbacks, in the order they fire

vars == <<doc, cursor, decorations, viewUpdate, pc, settings, forceRefresh,
          dictionary, file, fileAtLoad, writes, saveCalls, call, notices, raised,
          now, consoleErrors, anchor, translation, isDefiningWord, modals, timers>>

viewVars == <<doc, cursor, anchor, decorations, viewUpdate, forceRefresh>>
storeVars == <<file, fileAtLoad, writes, saveCalls, call, notices, raised, now,
               consoleErrors>>
flowVars == <<translation, isDefiningWord, modals, timers>>

----------------------------------------------------------------------------
(* Bounds of the model *)

MaxDocLen == 3
MaxOps == 2

----------------------------------------------------------------------------
(* Characters and strings *)

SH1 == "sh1"
SH2 == "sh2"
ShavianLetters == {SH1, SH2}
INTERPUNCT == "interpunct"
LSAQUO == "lsaquo"
RSAQUO == "rsaquo"
NEWLINE == "\n"
SPACE == " "

\* String.prototype.length: the number of UTF-16 code units of one character.
unitsOf(ch) == IF ch \in ShavianLetters THEN 2 ELSE 1

RECURSIVE length(_)
length(s) == IF s = <<>> THEN 0 ELSE unitsOf(Head(s)) + length(Tail(s))

\* The code-unit offset at which the character of index k starts.
offsetOf(s, k) == length(SubSeq(s, 1, k - 1))

\* The character boundaries of s, as code-unit offsets.
boundaries(s) == {offsetOf(s, k) : k \in 1..(Len(s) + 1)}

toUpperCase(ch) ==
    CASE ch = "a" -> "A"
      [] ch = "b" -> "B"
      [] OTHER -> ch

toLowerCase(ch) ==
    CASE ch = "A" -> "a"
      [] ch = "B" -> "b"
      [] OTHER -> ch

\* /[\u{10450}-\u{1047F}]/u.test(text)
isShavianScript(text) == \E k \in 1..Len(text) : text[k] \in ShavianLetters

----------------------------------------------------------------------------
(* The dictionary: Map<string, WordMapping> *)

keysOf(dict) == {dict[i].shavian : i \in 1..Len(dict)}

has(dict, key) == key \in keysOf(dict)

indexOfKey(dict, key) == CHOOSE i \in 1..Len(dict) : dict[i].shavian = key

\* Map.prototype.get, for a key the map has.
get(dict, key) == dict[indexOfKey(dict, key)]

NoUpdate == [pending |-> FALSE, docChanged |-> FALSE, viewportChanged |-> FALSE,
             selectionSet |-> FALSE]

ViewUpdate(docChanged, viewportChanged, selectionSet) ==
    [pending |-> TRUE, docChanged |-> docChanged,
     viewportChanged |-> viewportChanged, selectionSet |-> selectionSet]

DEFAULT_SETTINGS == [autoTranslateEnabled |-> TRUE, autoTranslateOnPaste |-> TRUE]

Mapping(shavian, latin, dateAdded) ==
    [shavian |-> shavian, latin |-> latin, dateAdded |-> dateAdded]

\* new Notice(text): the text's fixed part and the word and translation in it.
Notice(kind, word, latin) == [kind |-> kind, word |-> word, latin |-> latin]

NoCall == [n |-> 0, op |-> "none", word |-> <<>>, latin |-> <<>>]

\* No call of translateLatinToShavian yet.
NoTranslation == [n |-> 0, text |-> <<>>, words |-> <<>>, translated |-> <<>>,
                  hasUntranslated |-> FALSE, reverseMap |-> <<>>]

----------------------------------------------------------------------------
(* JavaScript values, as JSON.parse yields them and the loader reads them *)

JValue(t, s, n, items) == [t |-> t, s |-> s, n |-> n, items |-> items]

JUndefined == JValue("undefined", <<>>, 0, <<>>)
JNull == JValue("null", <<>>, 0, <<>>)
JNumber(n) == JValue("number", <<>>, n, <<>>)
JString(s) == JValue("string", s, 0, <<>>)
\* The ISO-8601 string of the time n (Date.prototype.toISOString).
JDate(n) == JValue("isodate", <<"isodate">>, n, <<>>)
JArray(items) == JValue("array", <<>>, 0, items)
\* An object: its members in order, each the pair [name, value].
JObject(members) == JValue("object", <<>>, 0, members)
JMember(name, value) == JArray(<<JString(name), value>>)
\* The result of an expression that threw.
Thrown == JValue("throw", <<>>, 0, <<>>)

\* Property names and fixed strings, each one unit of the model.
P_dictionary == <<"dictionary">>
P_version == <<"version">>
P_exportDate == <<"exportDate">>
P_wordCount == <<"wordCount">>
P_shavian == <<"shavian">>
P_latin == <<"latin">>
P_dateAdded == <<"dateAdded">>

typeofString(v) == v.t \in {"string", "isodate"}

\* v.name for one of the names above: a TypeError on null and undefined, the
\* member of an object, undefined on every other value.
getProp(v, name) ==
    IF v.t \in {"null", "undefined", "throw"} THEN Thrown
    ELSE IF v.t = "object" /\ \E i \in 1..Len(v.items) : v.items[i].items[1].s = name
         THEN v.items[CHOOSE i \in 1..Len(v.items) :
                          v.items[i].items[1].s = name].items[2]
         ELSE JUndefined

\* ToBoolean
truthy(v) ==
    CASE v.t \in {"undefined", "null", "throw"} -> FALSE
      [] v.t = "number" -> v.n # 0
      [] v.t = "string" -> v.s # <<>>
      [] OTHER -> TRUE

isArray(v) == v.t = "array"

\* The decimal string of an index: "0", "1", ...
indexString(i) == <<ToString(i)>>

\* Object.entries(v) for a value that is neither null nor undefined: the
\* members of an object, the indexed elements of an array, the indexed code
\* units of a string, nothing for a number.
objectEntries(v) ==
    CASE v.t = "object" -> v.items
      [] v.t = "array" ->
             [i \in 1..Len(v.items) |-> JMember(indexString(i - 1), v.items[i])]
      [] v.t = "string" ->
             [i \in 1..Len(v.s) |-> JMember(indexString(i - 1), JString(<<v.s[i]>>))]
      [] OTHER -> <<>>

\* The element at index i of the array destructuring [key, value] of e: a
\* TypeError when e is not iterable.
destructured(e, i) ==
    CASE e.t = "array" -> IF i <= Len(e.items) THEN e.items[i] ELSE JUndefined
      [] e.t = "string" -> IF i <= Len(e.s) THEN JString(<<e.s[i]>>) ELSE JUndefined
      [] OTHER -> Thrown

\* A JavaScript value held in a WordMapping field: a string is its
\* characters, any other value is the one unit naming its type.
stringOf(v) == IF v.t = "string" THEN v.s ELSE <<v.t>>
valueOf(s) == IF s = <<"undefined">> THEN JUndefined ELSE JString(s)

\* new Date(v || new Date()) at time t: -1 is the Invalid Date.
dateOf(v, t) ==
    IF ~truthy(v) THEN t
    ELSE IF v.t \in {"isodate", "number"} THEN v.n ELSE -1

\* Date.prototype.toJSON: null for the Invalid Date.
dateToJSON(n) == IF n < 0 THEN JNull ELSE JDate(n)

----------------------------------------------------------------------------
(* The decoration builder of the editor view plugin *)

\* text[u] for a code-unit index u (0-based): the character starting there
\* when it is one unit wide, else half of a surrogate pair.
codeUnitAt(text, u) ==
    IF \E k \in 1..Len(text) : offsetOf(text, k) = u /\ unitsOf(text[k]) = 1
    THEN text[CHOOSE k \in 1..Len(text) : offsetOf(text, k) = u]
    ELSE "surrogate"

\* The index of the last letter of the maximal run of Shavian letters that
\* starts at index k (k - 1 when there is none): [\u{10450}-\u{1047F}]+
RECURSIVE shavianRunEnd(_, _)
shavianRunEnd(text, k) ==
    IF k <= Len(text) /\ text[k] \in ShavianLetters
    THEN shavianRunEnd(text, k + 1)
    ELSE k - 1

\* The successive results of shavianRegex.exec(text), scanning from index k:
\* an optional interpunct followed by one or more Shavian letters.
RECURSIVE shavianRegexExec(_, _)
shavianRegexExec(text, k) ==
    IF k > Len(text) THEN <<>>
    ELSE LET first == IF text[k] = INTERPUNCT THEN k + 1 ELSE k
             last == shavianRunEnd(text, first)
         IN IF last >= first
            THEN <<[index |-> offsetOf(text, k), match |-> SubSeq(text, k, last)]>>
                 \o shavianRegexExec(text, last + 1)
            ELSE shavianRegexExec(text, k + 1)

\* The successive results of quotationRegex.exec(text): match indices.
RECURSIVE quotationRegexExec(_, _)
quotationRegexExec(text, k) ==
    IF k > Len(text) THEN <<>>
    ELSE IF text[k] \in {LSAQUO, RSAQUO}
         THEN <<[index |-> offsetOf(text, k), match |-> <<text[k]>>]>>
              \o quotationRegexExec(text, k + 1)
         ELSE quotationRegexExec(text, k + 1)

\* Mutant: the quotation guard compares the caret with the start only.
quotationDecoration_startOnly(lineFrom, m, cur) ==
    LET charStart == lineFrom + m.index
        charEnd == charStart + 1
    IN IF cur # charStart
       THEN <<[from |-> charStart, to |-> charEnd,
               widget |-> [type |-> "QuotationWidget", text |-> <<"\"">>]]>>
       ELSE <<>>

\* The body of the quotation loop for one match: zero or one range.
quotationDecoration(lineFrom, m, cur) ==
    LET charStart == lineFrom + m.index
        charEnd == charStart + 1
    IN IF cur # charStart /\ cur # charEnd
       THEN <<[from |-> charStart, to |-> charEnd,
               widget |-> [type |-> "QuotationWidget", text |-> <<"\"">>]]>>
       ELSE <<>>

\* Mutant: a word is skipped only while the caret is strictly inside it.
translatesWord_strictlyInside(cur, wordStart, wordEnd, set) ==
    (cur <= wordStart \/ cur >= wordEnd) /\ set.autoTranslateEnabled

\* Mutant: the end of the word is excluded from the skip range.
translatesWord_endExclusive(cur, wordStart, wordEnd, set) ==
    (cur < wordStart \/ cur >= wordEnd) /\ set.autoTranslateEnabled

\* The guard of the word loop: the word is not the one being typed and
\* auto-translate is enabled.
translatesWord(cur, wordStart, wordEnd, set) ==
    (cur < wordStart \/ cur > wordEnd) /\ set.autoTranslateEnabled

\* Mutant: the translation is shown as stored, names included.
displayTextOf_asStored(latin, isName) == latin

\* The text the LatinWidget shows for a mapping.
displayTextOf(latin, isName) ==
    IF isName /\ Len(latin) > 0
    THEN <<toUpperCase(latin[1])>> \o Tail(latin)
    ELSE latin

\* The body of the word loop for one match: zero or one range.
wordDecoration(text, lineFrom, m, cur, dict, set) ==
    LET shavianWord == m.match
        wordStart == lineFrom + m.index
        wordEnd == wordStart + length(shavianWord)
    IN IF translatesWord(cur, wordStart, wordEnd, set)
       THEN LET hasInterpunctInMatch == shavianWord[1] = INTERPUNCT
                charBeforeMatch == IF m.index > 0 THEN codeUnitAt(text, m.index - 1)
                                   ELSE ""
                isName == hasInterpunctInMatch \/ charBeforeMatch = INTERPUNCT
                baseWord == IF hasInterpunctInMatch THEN Tail(shavianWord)
                            ELSE shavianWord
            IN IF has(dict, baseWord)
               THEN <<[from |-> wordStart, to |-> wordEnd,
                       widget |-> [type |-> "LatinWidget",
                                   text |-> displayTextOf(get(dict, baseWord).latin,
                                                          isName)]]>>
               ELSE <<>>
       ELSE <<>>

RECURSIVE quotationDecorations(_, _, _)
quotationDecorations(lineFrom, ms, cur) ==
    IF ms = <<>> THEN <<>>
    ELSE quotationDecoration(lineFrom, Head(ms), cur)
         \o quotationDecorations(lineFrom, Tail(ms), cur)

RECURSIVE wordDecorations(_, _, _, _, _, _)
wordDecorations(text, lineFrom, ms, cur, dict, set) ==
    IF ms = <<>> THEN <<>>
    ELSE wordDecoration(text, lineFrom, Head(ms), cur, dict, set)
         \o wordDecorations(text, lineFrom, Tail(ms), cur, dict, set)

\* Array.prototype.sort((a, b) => a.from - b.from): a stable insertion sort.
RECURSIVE insertByFrom(_, _)
insertByFrom(r, sorted) ==
    IF sorted = <<>> THEN <<r>>
    ELSE IF r.from < Head(sorted).from THEN <<r>> \o sorted
         ELSE <<Head(sorted)>> \o insertByFrom(r, Tail(sorted))

\* Mutant: the line's decorations are pushed without sorting.
sortByFrom_unsorted(rs) == rs

RECURSIVE sortByFrom(_)
sortByFrom(rs) ==
    IF rs = <<>> THEN <<>>
    ELSE insertByFrom(rs[Len(rs)], sortByFrom(SubSeq(rs, 1, Len(rs) - 1)))

\* The index of the line break that ends the line starting at index k
\* (Len + 1 for the last line): doc.lineAt(pos).to
RECURSIVE lineEnd(_, _)
lineEnd(text, k) ==
    IF k > Len(text) \/ text[k] = NEWLINE THEN k ELSE lineEnd(text, k + 1)

\* The decorations of one line: quotation marks, then words, sorted.
lineDecorations(d, k, cur, dict, set) ==
    LET text == SubSeq(d, k, lineEnd(d, k) - 1)
        lineFrom == offsetOf(d, k)
    IN sortByFrom(quotationDecorations(lineFrom, quotationRegexExec(text, 1), cur)
                  \o wordDecorations(text, lineFrom, shavianRegexExec(text, 1),
                                     cur, dict, set))

\* The for loop over the lines, from the line that starts at index k:
\* for (let pos = 0; pos < doc.length;) { ...; pos = line.to + 1 }
RECURSIVE decorationsFrom(_, _, _, _, _)
decorationsFrom(d, k, cur, dict, set) ==
    IF k > Len(d) THEN <<>>
    ELSE lineDecorations(d, k, cur, dict, set)
         \o decorationsFrom(d, lineEnd(d, k) + 1, cur, dict, set)

buildDecorations(d, cur, dict, set) == decorationsFrom(d, 1, cur, dict, set)

----------------------------------------------------------------------------
(* The dictionary store: define, remove, load and save *)

\* Map.prototype.set
mapSet(dict, key, mapping) ==
    IF has(dict, key)
    THEN [i \in 1..Len(dict) |-> IF dict[i].shavian = key THEN mapping ELSE dict[i]]
    ELSE Append(dict, mapping)

\* Map.prototype.delete
mapDelete(dict, key) == SelectSeq(dict, LAMBDA m : m.shavian # key)

\* Mutant: an existing key gets a fresh record, as an absent one does.
addWordMapping_freshRecord(dict, shavian, latin, t) ==
    mapSet(dict, shavian, Mapping(shavian, latin, t))

\* addWordMapping, up to its call of saveDictionary.
addWordMapping(dict, shavian, latin, t) ==
    IF has(dict, shavian)
    THEN [i \in 1..Len(dict) |->
            IF dict[i].shavian = shavian THEN [dict[i] EXCEPT !.latin = latin]
            ELSE dict[i]]
    ELSE mapSet(dict, shavian, Mapping(shavian, latin, t))

\* Mutant: the record and every record inserted after it are dropped.
removeWordMapping_truncates(dict, shavian) ==
    IF has(dict, shavian) THEN SubSeq(dict, 1, indexOfKey(dict, shavian) - 1)
    ELSE dict

\* removeWordMapping, up to its call of saveDictionary.
removeWordMapping(dict, shavian) == mapDelete(dict, shavian)

\* Mutant: the translation is written under another member name.
mappingJSON_translationMember(m) ==
    JObject(SelectSeq(<<JMember(P_shavian, valueOf(m.shavian)),
                        JMember(<<"translation">>, valueOf(m.latin)),
                        JMember(P_dateAdded, dateToJSON(m.dateAdded))>>,
                      LAMBDA mem : mem.items[2].t # "undefined"))

\* The value JSON.stringify writes for one WordMapping (a member whose value
\* is undefined is left out), read back by JSON.parse.
mappingJSON(m) ==
    JObject(SelectSeq(<<JMember(P_shavian, valueOf(m.shavian)),
                        JMember(P_latin, valueOf(m.latin)),
                        JMember(P_dateAdded, dateToJSON(m.dateAdded))>>,
                      LAMBDA mem : mem.items[2].t # "undefined"))

\* saveDictionary up to its await: the text handed to adapter.write, as the
\* JSON value it denotes.
exportData(dict, t) ==
    JObject(<<JMember(P_version, JString(<<"1.0">>)),
              JMember(P_exportDate, JDate(t)),
              JMember(P_wordCount, JNumber(Len(dict))),
              JMember(P_dictionary,
                      JArray([i \in 1..Len(dict) |->
                                 JArray(<<valueOf(dict[i].shavian),
                                          mappingJSON(dict[i])>>)]))>>)

\* The persisted file: absent, unreadable, not JSON, or a JSON value.
MissingFile == [kind |-> "missing", root |-> JUndefined]
UnreadableFile == [kind |-> "unreadable", root |-> JUndefined]
MalformedFile == [kind |-> "malformed", root |-> JUndefined]
JSONFile(root) == [kind |-> "json", root |-> root]

\* Mutant: the canonical shape is not tried; an object is read member by
\* member.
loadedEntries_noCanonical(jsonData) ==
    IF jsonData.t \in {"null", "undefined", "throw"} THEN <<Thrown>>
    ELSE IF isArray(jsonData) THEN jsonData.items
    ELSE objectEntries(jsonData)

\* The entries the loader maps over: jsonData.dictionary when it is an array,
\* else jsonData when it is an array, else Object.entries(jsonData).
loadedEntries(jsonData) ==
    LET dict == getProp(jsonData, P_dictionary)
    IN IF dict.t = "throw" THEN <<Thrown>>    \* a TypeError, as for a null entry
       ELSE IF truthy(dict) /\ isArray(dict) THEN dict.items
       ELSE IF isArray(jsonData) THEN jsonData.items
       ELSE objectEntries(jsonData)

\* The callback of entries.map for one entry at time t: the key and the
\* fields of the mapping it returns, or threw.
loadedMapping(e, t) ==
    LET key == destructured(e, 1)
        value == destructured(e, 2)
        threw == [threw |-> TRUE, key |-> JUndefined, latin |-> JUndefined,
                  dateAdded |-> 0]
    IN IF key.t = "throw" THEN threw
       ELSE IF typeofString(value)
            THEN [threw |-> FALSE, key |-> key, latin |-> JString(value.s),
                  dateAdded |-> t]
            ELSE IF getProp(value, P_latin).t = "throw" THEN threw
                 ELSE [threw |-> FALSE, key |-> key,
                       latin |-> getProp(value, P_latin),
                       dateAdded |-> dateOf(getProp(value, P_dateAdded), t)]

\* new Map(pairs): a later pair with the key of an earlier one replaces its
\* value in place.
RECURSIVE newMap(_)
newMap(pairs) ==
    IF pairs = <<>> THEN <<>>
    ELSE LET p == pairs[Len(pairs)]
         IN mapSet(newMap(SubSeq(pairs, 1, Len(pairs) - 1)),
                   stringOf(p.key),
                   Mapping(stringOf(p.key), stringOf(p.latin), p.dateAdded))

\* loadDictionary at time t: the dictionary it leaves and whether an
\* exception leaves it.  Everything runs inside try; catch installs an empty
\* map.
loadDictionary(f, t) ==
    IF f.kind # "json" THEN [dictionary |-> <<>>, raised |-> FALSE]
    ELSE LET entries == loadedEntries(f.root)
             pairs == [i \in 1..Len(entries) |-> loadedMapping(entries[i], t)]
         IN IF \E i \in 1..Len(pairs) : pairs[i].threw
            THEN [dictionary |-> <<>>, raised |-> FALSE]
            ELSE [dictionary |-> newMap(pairs), raised |-> FALSE]

\* The words and translations the user enters in the store specification.
Words == {<<SH1>>, <<SH2>>}
Translations == {<<"a">>, <<"b">>}

\* The files found in the vault when the plugin starts.
InitialFiles ==
    { MissingFile, UnreadableFile, MalformedFile,
      JSONFile(exportData(<<>>, 0)),
      JSONFile(exportData(<<Mapping(<<SH1>>, <<"a">>, 0),
                            Mapping(<<SH2>>, <<"b">>, 0)>>, 0)),
      JSONFile(JArray(<<JArray(<<JString(<<SH1>>), JString(<<"a">>)>>),
                        JArray(<<JString(<<SH2>>),
                                 JObject(<<JMember(P_latin, JString(<<"b">>))>>)>>)>>)),
      JSONFile(JObject(<<JMember(<<SH1>>, JString(<<"a">>)),
                         JMember(<<SH2>>,
                                 JObject(<<JMember(P_latin, JString(<<"b">>)),
                                           JMember(P_dateAdded, JDate(0))>>))>>)),
      JSONFile(JObject(<<JMember(P_dictionary,
                                 JArray(<<JArray(<<JString(<<SH1>>),
                                                   JString(<<"a">>)>>),
                                          JArray(<<JString(<<SH2>>), JNull>>)>>))>>)),
      JSONFile(JObject(<<JMember(<<SH1>>, JString(<<"a">>)),
                         JMember(<<SH2>>, JNull)>>)),
      JSONFile(JArray(<<JArray(<<JString(<<SH1>>), JNumber(5)>>)>>)),
      JSONFile(JArray(<<JNumber(5)>>)),
      JSONFile(JObject(<<JMember(P_version, JString(<<"1.0">>)),
                         JMember(P_dictionary, JString(<<"a">>))>>)),
      JSONFile(JString(<<"a", "b">>)),
      JSONFile(JNumber(5)),
      JSONFile(JNull) }

\* onload: loadDictionary, then the handlers are registered.
onload ==
    /\ pc = "constructed"
    /\ LET r == loadDictionary(file, now)
       IN /\ dictionary' = r.dictionary
          /\ raised' = r.raised
    /\ fileAtLoad' = file
    /\ pc' = "idle"
    /\ now' = now + 1
    /\ UNCHANGED <<file, writes, saveCalls, call, notices, settings>>
    /\ UNCHANGED viewVars
    /\ UNCHANGED <<consoleErrors, flowVars>>

\* Mutant: the save is issued before the store is updated.
onDefine_savesFirst(shavianWord, latin) ==
    /\ pc = "idle"
    /\ call.n < MaxOps
    /\ writes' = Append(writes, exportData(dictionary, now))
    /\ dictionary' = addWordMapping(dictionary, shavianWord, latin, now)
    /\ saveCalls' = saveCalls + 1
    /\ notices' = Append(notices, Notice("Added", shavianWord, latin))
    /\ call' = [n |-> call.n + 1, op |-> "addWordMapping", word |-> shavianWord,
                latin |-> latin]
    /\ now' = now + 1
    /\ UNCHANGED <<file, fileAtLoad, raised, settings, pc>>
    /\ isDefiningWord' = FALSE
    /\ UNCHANGED viewVars
    /\ UNCHANGED <<consoleErrors, translation, timers>>

\* The onDefine callback of the definition modal: addWordMapping (which
\* saves) and the notice.
onDefine(shavianWord, latin) ==
    /\ pc = "idle"
    /\ call.n < MaxOps
    /\ dictionary' = addWordMapping(dictionary, shavianWord, latin, now)
    /\ writes' = Append(writes, exportData(dictionary', now))
    /\ saveCalls' = saveCalls + 1
    /\ notices' = Append(notices, Notice("Added", shavianWord, latin))
    /\ call' = [n |-> call.n + 1, op |-> "addWordMapping", word |-> shavianWord,
                latin |-> latin]
    /\ now' = now + 1
    /\ UNCHANGED <<file, fileAtLoad, raised, settings, pc>>
    /\ isDefiningWord' = FALSE
    /\ UNCHANGED viewVars
    /\ UNCHANGED <<consoleErrors, translation, timers>>

\* The delete button of the dictionary view, or any caller of the public
\* removeWordMapping: delete, save, notice.
onDelete(shavian) ==
    /\ pc = "idle"
    /\ call.n < MaxOps
    /\ dictionary' = removeWordMapping(dictionary, shavian)
    /\ writes' = Append(writes, exportData(dictionary', now))
    /\ saveCalls' = saveCalls + 1
    /\ notices' = Append(notices, Notice("Removed", shavian, <<>>))
    /\ call' = [n |-> call.n + 1, op |-> "removeWordMapping", word |-> shavian,
                latin |-> <<>>]
    /\ now' = now + 1
    /\ UNCHANGED <<file, fileAtLoad, raised, settings, pc>>
    /\ UNCHANGED viewVars
    /\ UNCHANGED <<consoleErrors, flowVars>>

\* onunload: a last saveDictionary.
onunload ==
    /\ pc = "idle"
    /\ writes' = Append(writes, exportData(dictionary, now))
    /\ saveCalls' = saveCalls + 1
    /\ pc' = "unloaded"
    /\ now' = now + 1
    /\ UNCHANGED <<dictionary, file, fileAtLoad, call, notices, raised, settings>>
    /\ UNCHANGED viewVars
    /\ UNCHANGED <<consoleErrors, flowVars>>

\* The write of the i-th save in flight completes: the file is replaced.
writeResolves(i) ==
    /\ i \in 1..Len(writes)
    /\ file' = JSONFile(writes[i])
    /\ writes' = SubSeq(writes, 1, i - 1) \o SubSeq(writes, i + 1, Len(writes))
    /\ UNCHANGED <<dictionary, fileAtLoad, saveCalls, call, notices, raised, now,
                   settings, pc>>
    /\ UNCHANGED viewVars
    /\ UNCHANGED <<consoleErrors, flowVars>>

\* Mutant: a failed write rolls the store back to what the file holds.
writeRejects_rollsBack(i) ==
    /\ i \in 1..Len(writes)
    /\ writes' = SubSeq(writes, 1, i - 1) \o SubSeq(writes, i + 1, Len(writes))
    /\ dictionary' = loadDictionary(file, now).dictionary
    /\ consoleErrors' = consoleErrors + 1
    /\ UNCHANGED <<file, fileAtLoad, saveCalls, call, notices, raised, now,
                   settings, pc>>
    /\ UNCHANGED viewVars
    /\ UNCHANGED flowVars

\* The write of the i-th save in flight fails: saveDictionary's catch logs it.
writeRejects(i) ==
    /\ i \in 1..Len(writes)
    /\ writes' = SubSeq(writes, 1, i - 1) \o SubSeq(writes, i + 1, Len(writes))
    /\ UNCHANGED <<dictionary, file, fileAtLoad, saveCalls, call, notices, raised,
                   now, settings, pc>>
    /\ consoleErrors' = consoleErrors + 1
    /\ UNCHANGED viewVars
    /\ UNCHANGED flowVars

\* The plugin object is constructed; the vault holds some file, or none.
InitStore ==
    /\ dictionary = <<>>
    /\ file \in InitialFiles
    /\ fileAtLoad = MissingFile
    /\ writes = <<>>
    /\ saveCalls = 0
    /\ call = NoCall
    /\ notices = <<>>
    /\ raised = FALSE
    /\ now = 0
    /\ pc = "constructed"
    /\ settings = DEFAULT_SETTINGS
    /\ doc = <<>>
    /\ cursor = 0
    /\ decorations = <<>>
    /\ viewUpdate = NoUpdate
    /\ forceRefresh = FALSE
    /\ consoleErrors = 0
    /\ anchor = 0
    /\ translation = NoTranslation
    /\ isDefiningWord = FALSE
    /\ modals = <<>>
    /\ timers = <<>>

NextStore ==
    \/ onload
    \/ \E w \in Words, l \in Translations : onDefine(w, l) /\ UNCHANGED modals
    \/ \E w \in Words : onDelete(w)
    \/ onunload
    \/ \E i \in 1..Len(writes) : writeResolves(i)
    \/ \E i \in 1..Len(writes) : writeRejects(i)

SpecStore == InitStore /\ [][NextStore]_vars

----------------------------------------------------------------------------
(* The editor view: host transactions and the view plugin's update *)

\* The characters the user types into the editor.
Typed == {SH1, SH2, INTERPUNCT, LSAQUO, RSAQUO, SPACE, NEWLINE}

\* Dictionaries the plugin holds once loaded, in the view specification.
LoadedDictionaries ==
    { <<>>,
      <<Mapping(<<SH1>>, <<"a", "b">>, 0), Mapping(<<SH1, SH2>>, <<"B", "a">>, 0)>>,
      <<Mapping(<<INTERPUNCT, SH1>>, <<"a">>, 0), Mapping(<<SH2>>, <<"b">>, 0),
        Mapping(<<SH2, SH2>>, <<>>, 0)>> }

\* The user types ch at the caret: a document change that moves the caret.
EditorInsert(ch) ==
    /\ pc = "idle"
    /\ Len(doc) < MaxDocLen
    /\ cursor \in boundaries(doc)
    /\ LET k == CHOOSE i \in 1..(Len(doc) + 1) : offsetOf(doc, i) = cursor
       IN /\ doc' = SubSeq(doc, 1, k - 1) \o <<ch>> \o SubSeq(doc, k, Len(doc))
          /\ cursor' = cursor + unitsOf(ch)
          /\ anchor' = cursor'
    /\ viewUpdate' = ViewUpdate(TRUE, FALSE, TRUE)
    /\ pc' = "update"
    /\ UNCHANGED <<decorations, forceRefresh, settings, dictionary>>
    /\ UNCHANGED storeVars
    /\ UNCHANGED flowVars

\* The user deletes the character before the caret.
EditorBackspace ==
    /\ pc = "idle"
    /\ cursor \in boundaries(doc) \ {0}
    /\ LET k == CHOOSE i \in 1..(Len(doc) + 1) : offsetOf(doc, i) = cursor
       IN /\ doc' = SubSeq(doc, 1, k - 2) \o SubSeq(doc, k, Len(doc))
          /\ cursor' = cursor - unitsOf(doc[k - 1])
          /\ anchor' = cursor'
    /\ viewUpdate' = ViewUpdate(TRUE, FALSE, TRUE)
    /\ pc' = "update"
    /\ UNCHANGED <<decorations, forceRefresh, settings, dictionary>>
    /\ UNCHANGED storeVars
    /\ UNCHANGED flowVars

\* The caret moves to offset c.
SelectionChange(c) ==
    /\ pc = "idle"
    /\ c # cursor
    /\ cursor' = c
    /\ anchor' = c
    /\ viewUpdate' = ViewUpdate(FALSE, FALSE, TRUE)
    /\ pc' = "update"
    /\ UNCHANGED <<doc, decorations, forceRefresh, settings, dictionary>>
    /\ UNCHANGED storeVars
    /\ UNCHANGED flowVars

\* The editor scrolls or is resized.
ViewportChange ==
    /\ pc = "idle"
    /\ viewUpdate' = ViewUpdate(FALSE, TRUE, FALSE)
    /\ pc' = "update"
    /\ UNCHANGED <<doc, cursor, anchor, decorations, forceRefresh, settings,
                   dictionary>>
    /\ UNCHANGED storeVars
    /\ UNCHANGED flowVars

\* A transaction that changes neither document, viewport nor selection
\* (focus change, an effect of another extension).
OtherTransaction ==
    /\ pc = "idle"
    /\ viewUpdate' = ViewUpdate(FALSE, FALSE, FALSE)
    /\ pc' = "update"
    /\ UNCHANGED <<doc, cursor, anchor, decorations, forceRefresh, settings,
                   dictionary>>
    /\ UNCHANGED storeVars
    /\ UNCHANGED flowVars

\* Mutant: only document and viewport changes rebuild the decorations.
rebuilds_docOrViewportOnly(u, force) ==
    u.docChanged \/ u.viewportChanged

\* The condition under which update rebuilds the decorations.
rebuilds(u, force) ==
    u.docChanged \/ u.viewportChanged \/ u.selectionSet \/ force

\* Mutant: the pass writes the capitalised display text back into the mapping.
update_writesBack ==
    /\ pc \in {"update", "refresh"}
    /\ viewUpdate.pending
    /\ decorations' = IF rebuilds(viewUpdate, forceRefresh)
                      THEN buildDecorations(doc, cursor, dictionary, settings)
                      ELSE decorations
    /\ dictionary' = [i \in 1..Len(dictionary) |->
                        IF \E j \in 1..Len(decorations') :
                               decorations'[j].widget.text
                                   = displayTextOf(dictionary[i].latin, TRUE)
                        THEN [dictionary[i] EXCEPT
                                  !.latin = displayTextOf(dictionary[i].latin, TRUE)]
                        ELSE dictionary[i]]
    /\ viewUpdate' = NoUpdate
    /\ pc' = IF pc = "refresh" THEN "refreshed" ELSE "idle"
    /\ UNCHANGED <<doc, cursor, anchor, forceRefresh, settings>>
    /\ UNCHANGED storeVars
    /\ UNCHANGED flowVars

\* The view plugin's update(update: ViewUpdate), called by the host within
\* the dispatch of every transaction.
update ==
    /\ pc \in {"update", "refresh"}
    /\ viewUpdate.pending
    /\ decorations' = IF rebuilds(viewUpdate, forceRefresh)
                      THEN buildDecorations(doc, cursor, dictionary, settings)
                      ELSE decorations
    /\ viewUpdate' = NoUpdate
    /\ pc' = IF pc = "refresh" THEN "refreshed" ELSE "idle"
    /\ UNCHANGED <<doc, cursor, anchor, forceRefresh, settings, dictionary>>
    /\ UNCHANGED storeVars
    /\ UNCHANGED flowVars

\* toggleAutoTranslate up to the dispatch inside refreshAllViews: the setting
\* is flipped, a notice is shown, forceRefresh is raised and an empty change
\* is dispatched to the editor.
toggleAutoTranslate ==
    /\ pc = "idle"
    /\ Len(notices) < MaxOps
    /\ settings' = [settings EXCEPT !.autoTranslateEnabled = ~@]
    /\ notices' = Append(notices, Notice(IF settings'.autoTranslateEnabled
                                         THEN "Auto-translate enabled"
                                         ELSE "Auto-translate disabled",
                                         <<>>, <<>>))
    /\ forceRefresh' = TRUE
    /\ viewUpdate' = ViewUpdate(FALSE, FALSE, FALSE)
    /\ pc' = "refresh"
    /\ UNCHANGED <<doc, cursor, decorations, dictionary>>
    /\ UNCHANGED <<file, fileAtLoad, writes, saveCalls, call, raised, now,
                   consoleErrors, anchor>>
    /\ UNCHANGED flowVars

\* refreshAllViews after the dispatch has returned.
refreshAllViewsReturn ==
    /\ pc = "refreshed"
    /\ forceRefresh' = FALSE
    /\ pc' = "idle"
    /\ UNCHANGED <<doc, cursor, anchor, decorations, viewUpdate, settings,
                   dictionary>>
    /\ UNCHANGED storeVars
    /\ UNCHANGED flowVars

\* The plugin is loaded and an editor is open on an empty note: the view
\* plugin's constructor has built the decorations.
Init ==
    /\ doc = <<>>
    /\ cursor = 0
    /\ settings = DEFAULT_SETTINGS
    /\ dictionary \in LoadedDictionaries
    /\ decorations = buildDecorations(doc, cursor, dictionary, settings)
    /\ viewUpdate = NoUpdate
    /\ pc = "idle"
    /\ forceRefresh = FALSE
    /\ file = MissingFile
    /\ fileAtLoad = MissingFile
    /\ writes = <<>>
    /\ saveCalls = 0
    /\ call = NoCall
    /\ notices = <<>>
    /\ raised = FALSE
    /\ now = 0
    /\ consoleErrors = 0
    /\ anchor = 0
    /\ translation = NoTranslation
    /\ isDefiningWord = FALSE
    /\ modals = <<>>
    /\ timers = <<>>

Next ==
    \/ \E ch \in Typed : EditorInsert(ch)
    \/ EditorBackspace
    \/ \E c \in 0..length(doc) : SelectionChange(c)
    \/ ViewportChange
    \/ OtherTransaction
    \/ update
    \/ toggleAutoTranslate
    \/ refreshAllViewsReturn

Spec == Init /\ [][Next]_vars

----------------------------------------------------------------------------
(* Batch translation of Latin text: translate-selected-text *)

FULLSTOP == "."

\* \w among the characters of the model.
WordCharacters == {"a", "b", "A", "B"}

\* /^[A-Z]/ among the characters of the model.
UppercaseLetters == {"A", "B"}

\* String.prototype.toLowerCase
toLowerCaseOf(s) == [i \in 1..Len(s) |-> toLowerCase(s[i])]

\* \b before the character of index k: exactly one of the characters on its
\* two sides is a word character.
wordBoundary(text, k) ==
    (k > 1 /\ text[k - 1] \in WordCharacters)
        # (k <= Len(text) /\ text[k] \in WordCharacters)

\* The index of the last character of the maximal run, starting at index k, of
\* characters that are word characters (inWord) or are not (~inWord).
RECURSIVE runEnd(_, _, _)
runEnd(text, k, inWord) ==
    IF k <= Len(text) /\ ((text[k] \in WordCharacters) = inWord)
    THEN runEnd(text, k + 1, inWord)
    ELSE k - 1

\* Mutant: the second alternative is \W, one character per match.
RECURSIVE matchWords_singleNonWord(_, _)
matchWords_singleNonWord(text, k) ==
    IF k > Len(text) THEN <<>>
    ELSE IF text[k] \in WordCharacters /\ wordBoundary(text, k)
         THEN <<SubSeq(text, k, runEnd(text, k, TRUE))>>
              \o matchWords_singleNonWord(text, runEnd(text, k, TRUE) + 1)
         ELSE <<SubSeq(text, k, k)>> \o matchWords_singleNonWord(text, k + 1)

\* text.match(/\b\w+\b|\W+/g) || [], scanning from index k: at each position
\* the first alternative is tried, then the second; where neither matches the
\* scan moves on by one character.
RECURSIVE matchWords(_, _)
matchWords(text, k) ==
    IF k > Len(text) THEN <<>>
    ELSE IF /\ text[k] \in WordCharacters
            /\ wordBoundary(text, k)
            /\ wordBoundary(text, runEnd(text, k, TRUE) + 1)
         THEN <<SubSeq(text, k, runEnd(text, k, TRUE))>>
              \o matchWords(text, runEnd(text, k, TRUE) + 1)
         ELSE IF text[k] \notin WordCharacters
              THEN <<SubSeq(text, k, runEnd(text, k, FALSE))>>
                   \o matchWords(text, runEnd(text, k, FALSE) + 1)
              ELSE matchWords(text, k + 1)

\* /^\w+$/.test(word)
isWord(word) == word # <<>> /\ \A i \in 1..Len(word) : word[i] \in WordCharacters

\* Mutant: an uppercase letter anywhere in the word counts.
isCapitalised_anywhere(word) == \E i \in 1..Len(word) : word[i] \in UppercaseLetters

\* /^[A-Z]/.test(word)
isCapitalised(word) == word # <<>> /\ word[1] \in UppercaseLetters

\* Mutant: the first mapping with a lowercase latin keeps its place in the
\* reverse map.
RECURSIVE reverseMap_firstWins(_)
reverseMap_firstWins(dict) ==
    IF dict = <<>> THEN <<>>
    ELSE LET rest == reverseMap_firstWins(SubSeq(dict, 1, Len(dict) - 1))
             m == dict[Len(dict)]
             pair == [latin |-> toLowerCaseOf(m.latin), shavian |-> m.shavian]
         IN IF \E i \in 1..Len(rest) : rest[i].latin = pair.latin
            THEN rest
            ELSE Append(rest, pair)

\* reverseMap after dictionary.forEach: the pairs [latin, shavian] in the
\* order their latin was first set; a later mapping with the same lowercase
\* latin replaces the shavian in place.
RECURSIVE reverseMap(_)
reverseMap(dict) ==
    IF dict = <<>> THEN <<>>
    ELSE LET rest == reverseMap(SubSeq(dict, 1, Len(dict) - 1))
             m == dict[Len(dict)]
             pair == [latin |-> toLowerCaseOf(m.latin), shavian |-> m.shavian]
         IN IF \E i \in 1..Len(rest) : rest[i].latin = pair.latin
            THEN [i \in 1..Len(rest) |->
                     IF rest[i].latin = pair.latin THEN pair ELSE rest[i]]
            ELSE Append(rest, pair)

reverseMapHas(rmap, lowerWord) == \E i \in 1..Len(rmap) : rmap[i].latin = lowerWord

reverseMapGet(rmap, lowerWord) ==
    rmap[CHOOSE i \in 1..Len(rmap) : rmap[i].latin = lowerWord].shavian

\* The callback of words.map for one element.
translatedWord(word, rmap) ==
    IF isWord(word)
    THEN IF reverseMapHas(rmap, toLowerCaseOf(word))
         THEN IF isCapitalised(word)
              THEN <<INTERPUNCT>> \o reverseMapGet(rmap, toLowerCaseOf(word))
              ELSE reverseMapGet(rmap, toLowerCaseOf(word))
         ELSE word
    ELSE word

\* Mutant: a word counts as untranslated unless it is in the index as typed.
setsHasUntranslated_caseSensitive(word, rmap) ==
    isWord(word) /\ ~reverseMapHas(rmap, word)

\* The callback of words.map sets hasUntranslated for this element.
setsHasUntranslated(word, rmap) ==
    isWord(word) /\ ~reverseMapHas(rmap, toLowerCaseOf(word))

\* Array.prototype.join('')
RECURSIVE join(_)
join(strings) == IF strings = <<>> THEN <<>> ELSE Head(strings) \o join(Tail(strings))

\* translateLatinToShavian(text): its reverseMap, its words array and what it
\* returns.
translateLatinToShavian(text, dict) ==
    LET rmap == reverseMap(dict)
        words == matchWords(text, 1)
    IN [text |-> text,
        reverseMap |-> rmap,
        words |-> words,
        translated |-> join([i \in 1..Len(words) |-> translatedWord(words[i], rmap)]),
        hasUntranslated |-> \E i \in 1..Len(words) : setsHasUntranslated(words[i], rmap)]

\* The index of the character that starts at a code-unit offset.
indexAt(d, offset) == CHOOSE k \in 1..(Len(d) + 1) : offsetOf(d, k) = offset

selectionFrom == IF anchor < cursor THEN anchor ELSE cursor
selectionTo == IF anchor < cursor THEN cursor ELSE anchor

\* editor.getSelection()
getSelection == SubSeq(doc, indexAt(doc, selectionFrom), indexAt(doc, selectionTo) - 1)

\* The buffer after editor.replaceSelection(text).
replaceSelection(text) ==
    SubSeq(doc, 1, indexAt(doc, selectionFrom) - 1) \o text
        \o SubSeq(doc, indexAt(doc, selectionTo), Len(doc))

\* What a handler does with the editor and the notice it shows.
Outcome(replaces, text, notice) ==
    [replaces |-> replaces, text |-> text, notice |-> notice]

\* Mutant: script text in the selection is not rejected.
translateSelectedText_noScriptCheck(selectedText, dict) ==
    LET translatedText == translateLatinToShavian(selectedText, dict)
    IN IF translatedText.translated # selectedText
       THEN Outcome(TRUE, translatedText.translated,
                    IF translatedText.hasUntranslated
                    THEN "Not all words could be translated using your dictionary"
                    ELSE "Text translated (Latin -> Shavian)")
       ELSE Outcome(FALSE, <<>>, "No translatable words found in selection")

\* translateSelectedText(editor, selectedText)
translateSelectedText(selectedText, dict) ==
    IF isShavianScript(selectedText)
    THEN Outcome(FALSE, <<>>, "Only Latin to Shavian translation is supported")
    ELSE LET translatedText == translateLatinToShavian(selectedText, dict)
         IN IF translatedText.translated # selectedText
            THEN Outcome(TRUE, translatedText.translated,
                         IF translatedText.hasUntranslated
                         THEN "Not all words could be translated using your dictionary"
                         ELSE "Text translated (Latin -> Shavian)")
            ELSE Outcome(FALSE, <<>>, "No translatable words found in selection")

\* The editorCallback of the translate-selected-text command.  A replacement
\* is a document change: the caret goes to the end of the inserted text and
\* the view plugin rebuilds the decorations within the dispatch.
translateSelectedTextCommand ==
    /\ pc = "idle"
    /\ call.n < MaxOps
    /\ LET selection == getSelection
           o == IF selection # <<>> THEN translateSelectedText(selection, dictionary)
                ELSE Outcome(FALSE, <<>>, "No text selected")
       IN /\ doc' = IF o.replaces THEN replaceSelection(o.text) ELSE doc
          /\ cursor' = IF o.replaces THEN selectionFrom + length(o.text) ELSE cursor
          /\ anchor' = IF o.replaces THEN cursor' ELSE anchor
          /\ decorations' = IF o.replaces
                            THEN buildDecorations(doc', cursor', dictionary, settings)
                            ELSE decorations
          /\ translation' =
                 IF selection # <<>> /\ ~isShavianScript(selection)
                 THEN LET t == translateLatinToShavian(selection, dictionary)
                      IN [n |-> translation.n + 1, text |-> t.text, words |-> t.words,
                          translated |-> t.translated,
                          hasUntranslated |-> t.hasUntranslated,
                          reverseMap |-> t.reverseMap]
                 ELSE translation
          /\ notices' = Append(notices, Notice(o.notice, <<>>, <<>>))
          /\ call' = [n |-> call.n + 1, op |-> "translateSelectedText",
                      word |-> selection, latin |-> <<>>]
    /\ UNCHANGED <<viewUpdate, forceRefresh, pc, settings, dictionary>>
    /\ UNCHANGED <<file, fileAtLoad, writes, saveCalls, raised, now, consoleErrors>>
    /\ UNCHANGED <<isDefiningWord, modals, timers>>

\* The characters of the texts the user selects.
BatchCharacters == {"a", "b", "A", SPACE, FULLSTOP, SH1}

\* The texts of at most n characters.
TextsUpTo(n) == UNION {[1..m -> BatchCharacters] : m \in 0..n}

\* Dictionaries the plugin holds in the batch specification.
BatchDictionaries ==
    { <<>>,
      <<Mapping(<<SH1>>, <<"b", "a">>, 0), Mapping(<<SH2>>, <<"a">>, 0),
        Mapping(<<SH1, SH2>>, <<"B", "a">>, 0)>>,
      <<Mapping(<<INTERPUNCT, SH1>>, <<"b">>, 0), Mapping(<<"a">>, <<"a">>, 0)>> }

\* The plugin is loaded and an editor is open on a note with some text and a
\* selection (the caret when anchor and head coincide).
InitBatch ==
    /\ doc \in TextsUpTo(MaxDocLen)
    /\ cursor \in boundaries(doc)
    /\ anchor \in boundaries(doc)
    /\ settings = DEFAULT_SETTINGS
    /\ dictionary \in BatchDictionaries
    /\ decorations = buildDecorations(doc, cursor, dictionary, settings)
    /\ viewUpdate = NoUpdate
    /\ pc = "idle"
    /\ forceRefresh = FALSE
    /\ file = MissingFile
    /\ fileAtLoad = MissingFile
    /\ writes = <<>>
    /\ saveCalls = 0
    /\ call = NoCall
    /\ notices = <<>>
    /\ raised = FALSE
    /\ now = 0
    /\ consoleErrors = 0
    /\ translation = NoTranslation
    /\ isDefiningWord = FALSE
    /\ modals = <<>>
    /\ timers = <<>>

NextBatch == translateSelectedTextCommand

SpecBatch == InitBatch /\ [][NextBatch]_vars

\* The Latin texts of at most n letters.
LatinTextsUpTo(n) == UNION {[1..m -> {"a", "b", "A"}] : m \in 1..n}

\* What the user defines between translation requests.
IndexWords == {<<SH2>>, <<SH2, SH2>>}
IndexTranslations == {<<"b", "a">>, <<"A">>}

\* Translation requests between changes of the store: a note holding a Latin
\* text, all of it selected.
InitIndex ==
    /\ doc \in LatinTextsUpTo(MaxDocLen)
    /\ anchor = 0
    /\ cursor = length(doc)
    /\ settings = DEFAULT_SETTINGS
    /\ dictionary \in BatchDictionaries
    /\ decorations = buildDecorations(doc, cursor, dictionary, settings)
    /\ viewUpdate = NoUpdate
    /\ pc = "idle"
    /\ forceRefresh = FALSE
    /\ file = MissingFile
    /\ fileAtLoad = MissingFile
    /\ writes = <<>>
    /\ saveCalls = 0
    /\ call = NoCall
    /\ notices = <<>>
    /\ raised = FALSE
    /\ now = 0
    /\ consoleErrors = 0
    /\ translation = NoTranslation
    /\ isDefiningWord = FALSE
    /\ modals = <<>>
    /\ timers = <<>>

NextIndex ==
    \/ translateSelectedTextCommand
    \/ \E w \in IndexWords, l \in IndexTranslations : onDefine(w, l) /\ UNCHANGED modals
    \/ \E w \in keysOf(dictionary) : onDelete(w)

SpecIndex == InitIndex /\ [][NextIndex]_vars

----------------------------------------------------------------------------
(* The unknown-word capture flow: keydown, the 50 ms timer, the modal *)

Whitespace == {SPACE, NEWLINE}

\* String.prototype.trim
RECURSIVE trimStart(_)
trimStart(s) ==
    IF s # <<>> /\ Head(s) \in Whitespace THEN trimStart(Tail(s)) ELSE s

RECURSIVE trimEnd(_)
trimEnd(s) ==
    IF s # <<>> /\ s[Len(s)] \in Whitespace
    THEN trimEnd(SubSeq(s, 1, Len(s) - 1))
    ELSE s

trim(s) == trimEnd(trimStart(s))

\* The index at which the line holding the character boundary k starts.
RECURSIVE lineStart(_, _)
lineStart(d, k) ==
    IF k = 1 \/ d[k - 1] = NEWLINE THEN k ELSE lineStart(d, k - 1)

\* The last element of s.split(/\s+/), or '' when it is empty.
RECURSIVE lastWord(_)
lastWord(s) ==
    IF s = <<>> \/ s[Len(s)] \in Whitespace THEN <<>>
    ELSE Append(lastWord(SubSeq(s, 1, Len(s) - 1)), s[Len(s)])

\* getPreviousWord(editor), for the buffer d and the caret cur.
getPreviousWord(d, cur) ==
    LET k == indexAt(d, cur)
        beforeCursor == trim(SubSeq(d, lineStart(d, k), k - 1))
    IN lastWord(beforeCursor)

\* A callback handed to setTimeout.
Timer(fn, arg) == [fn |-> fn, arg |-> arg]

\* Mutant: the word is looked up without its last character.
schedulesPrompt_shortWord(word, dict) ==
    isShavianScript(word) /\ ~has(dict, SubSeq(word, 1, Len(word) - 1))

\* The condition of handleSpacePress.
schedulesPrompt(word, dict) == isShavianScript(word) /\ ~has(dict, word)

\* The keys the user presses, and the character each puts into the editor.
CaptureKeys == {SH1, INTERPUNCT, "a", SPACE, "Enter", "ArrowLeft"}
characterOf(key) == IF key = "Enter" THEN NEWLINE ELSE key

\* The caret after the host handles ArrowLeft: the start of the selection
\* when there is one, else one character to the left.
caretLeft(d, cur) ==
    IF anchor # cur THEN selectionFrom
    ELSE IF cur = 0 THEN 0 ELSE cur - unitsOf(d[indexAt(d, cur) - 1])

\* Mutant: the handler does not read isDefiningWord.
handlesSpace_unguarded(key, defining, sourceMode) == key = SPACE /\ sourceMode

\* The conditions under which the keydown handler calls handleSpacePress.
handlesSpace(key, defining, sourceMode) ==
    key = SPACE /\ ~defining /\ sourceMode

\* A keydown event on the document.  The plugin's handler runs first: for a
\* space, outside a definition, with a Markdown view in source mode active, it
\* calls handleSpacePress, which may schedule showDefinitionModal 50 ms later.
\* Then the host handles the key: with the editor focused (no modal open) the
\* character is inserted at the caret, or the caret moves left (to the start
\* of the selection when there is one), a change for which the view plugin
\* rebuilds the decorations.  The user is taken to type with nothing selected.
\* With a modal open the key goes to its input, and only a space concerns the
\* plugin.
keydown(key, sourceMode) ==
    /\ pc = "idle"
    /\ modals = <<>> \/ key = SPACE
    /\ LET word == getPreviousWord(doc, cursor)
           detects == /\ handlesSpace(key, isDefiningWord, sourceMode)
                      /\ schedulesPrompt(word, dictionary)
           edits == modals = <<>> /\ sourceMode
           inserts == edits /\ key # "ArrowLeft"
       IN /\ detects => Len(timers) + Len(modals) < MaxOps
          /\ inserts => anchor = cursor /\ Len(doc) < MaxDocLen
          /\ timers' = IF detects
                       THEN Append(timers, Timer("showDefinitionModal", word))
                       ELSE timers
          /\ doc' = IF inserts THEN replaceSelection(<<characterOf(key)>>) ELSE doc
          /\ cursor' = IF inserts THEN selectionFrom + unitsOf(characterOf(key))
                        ELSE IF edits THEN caretLeft(doc, cursor)
                        ELSE cursor
          /\ anchor' = IF edits THEN cursor' ELSE anchor
          /\ decorations' = IF edits
                            THEN buildDecorations(doc', cursor', dictionary, settings)
                            ELSE decorations
    /\ UNCHANGED <<viewUpdate, forceRefresh, pc, settings, dictionary>>
    /\ UNCHANGED storeVars
    /\ UNCHANGED <<translation, isDefiningWord, modals>>

\* The timeout of handleSpacePress expires: showDefinitionModal(word) raises
\* the flag and opens a modal.  Timers of equal delay fire in the order they
\* were set.
timerFires ==
    /\ pc = "idle"
    /\ timers # <<>>
    /\ Head(timers).fn = "showDefinitionModal"
    /\ isDefiningWord' = TRUE
    /\ modals' = Append(modals, Head(timers).arg)
    /\ timers' = Tail(timers)
    /\ UNCHANGED <<settings, dictionary, pc, translation>>
    /\ UNCHANGED viewVars
    /\ UNCHANGED storeVars

\* What the user leaves in the input of the modal.
Entered == {<<SPACE>>, <<SPACE, "b">>}

\* saveBtn.onclick of the top modal (also Enter in its input): the trimmed
\* value, when not empty, goes to onDefine and the modal closes.
saveBtnClick(input) ==
    /\ pc = "idle"
    /\ modals # <<>>
    /\ call.n < MaxOps
    /\ LET value == trim(input)
       IN IF value # <<>>
          THEN /\ onDefine(modals[Len(modals)], value)
               /\ modals' = SubSeq(modals, 1, Len(modals) - 1)
          ELSE /\ call' = [n |-> call.n + 1, op |-> "saveBtn.onclick",
                           word |-> modals[Len(modals)], latin |-> value]
               /\ UNCHANGED <<settings, dictionary, pc>>
               /\ UNCHANGED viewVars
               /\ UNCHANGED <<file, fileAtLoad, writes, saveCalls, notices, raised,
                              now, consoleErrors>>
               /\ UNCHANGED flowVars

\* Mutant: the cancel button closes the modal without calling onCancel.
cancelBtnClick_closesOnly ==
    /\ pc = "idle"
    /\ modals # <<>>
    /\ call.n < MaxOps
    /\ modals' = SubSeq(modals, 1, Len(modals) - 1)
    /\ call' = [n |-> call.n + 1, op |-> "cancelBtn.onclick",
                word |-> modals[Len(modals)], latin |-> <<>>]
    /\ UNCHANGED <<settings, dictionary, pc, translation, timers, isDefiningWord>>
    /\ UNCHANGED viewVars
    /\ UNCHANGED <<file, fileAtLoad, writes, saveCalls, notices, raised, now,
                   consoleErrors>>

\* cancelBtn.onclick of the top modal (also Escape in its input): onCancel
\* lowers the flag and the modal closes.
cancelBtnClick ==
    /\ pc = "idle"
    /\ modals # <<>>
    /\ call.n < MaxOps
    /\ isDefiningWord' = FALSE
    /\ modals' = SubSeq(modals, 1, Len(modals) - 1)
    /\ call' = [n |-> call.n + 1, op |-> "cancelBtn.onclick",
                word |-> modals[Len(modals)], latin |-> <<>>]
    /\ UNCHANGED <<settings, dictionary, pc, translation, timers>>
    /\ UNCHANGED viewVars
    /\ UNCHANGED <<file, fileAtLoad, writes, saveCalls, notices, raised, now,
                   consoleErrors>>

\* The host closes the top modal (its close button, a click outside it,
\* Escape outside the input): only onClose runs.
modalClose ==
    /\ pc = "idle"
    /\ modals # <<>>
    /\ call.n < MaxOps
    /\ modals' = SubSeq(modals, 1, Len(modals) - 1)
    /\ call' = [n |-> call.n + 1, op |-> "onClose",
                word |-> modals[Len(modals)], latin |-> <<>>]
    /\ UNCHANGED <<settings, dictionary, pc, translation, timers, isDefiningWord>>
    /\ UNCHANGED viewVars
    /\ UNCHANGED <<file, fileAtLoad, writes, saveCalls, notices, raised, now,
                   consoleErrors>>

\* The user selects the text between the offsets a and c (a selection change,
\* for which the view plugin rebuilds the decorations) and picks "Add to
\* Shavian Dictionary" in the editor menu, which is offered for a selection
\* with a script character: addSelectedTextToDictionary opens the modal for
\* the first match of the word pattern.  Selecting and picking the item takes
\* longer than the 50 ms of a pending timer, so none is pending.
editorMenuAddToDictionary(a, c) ==
    /\ pc = "idle"
    /\ modals = <<>>
    /\ timers = <<>>
    /\ Len(timers) + Len(modals) < MaxOps
    /\ a < c
    /\ anchor' = a
    /\ cursor' = c
    /\ decorations' = buildDecorations(doc, c, dictionary, settings)
    /\ LET selection == SubSeq(doc, indexAt(doc, a), indexAt(doc, c) - 1)
           shavianWords == shavianRegexExec(selection, 1)
       IN /\ isShavianScript(selection)
          /\ shavianWords # <<>>
          /\ isDefiningWord' = TRUE
          /\ modals' = Append(modals, shavianWords[1].match)
    /\ UNCHANGED <<doc, viewUpdate, forceRefresh, pc, settings, dictionary>>
    /\ UNCHANGED storeVars
    /\ UNCHANGED <<translation, timers>>

\* Dictionaries the plugin holds in the capture specification.
CaptureDictionaries == { <<>>, <<Mapping(<<SH1>>, <<"a">>, 0)>> }

\* The plugin is loaded and an editor is open on an empty note.
InitCapture ==
    /\ doc = <<>>
    /\ cursor = 0
    /\ anchor = 0
    /\ settings = DEFAULT_SETTINGS
    /\ dictionary \in CaptureDictionaries
    /\ decorations = buildDecorations(doc, cursor, dictionary, settings)
    /\ viewUpdate = NoUpdate
    /\ pc = "idle"
    /\ forceRefresh = FALSE
    /\ file = MissingFile
    /\ fileAtLoad = MissingFile
    /\ writes = <<>>
    /\ saveCalls = 0
    /\ call = NoCall
    /\ notices = <<>>
    /\ raised = FALSE
    /\ now = 0
    /\ consoleErrors = 0
    /\ translation = NoTranslation
    /\ isDefiningWord = FALSE
    /\ modals = <<>>
    /\ timers = <<>>

NextCapture ==
    \/ \E key \in CaptureKeys, sourceMode \in BOOLEAN : keydown(key, sourceMode)
    \/ timerFires
    \/ \E input \in Entered : saveBtnClick(input)
    \/ cancelBtnClick
    \/ modalClose

SpecCapture == InitCapture /\ [][NextCapture]_vars

\* A whole editing session: the capture flow from the keyboard together with
\* the editor menu, deletions from the dictionary view, the completion of the
\* writes and viewport changes.
InitSession == InitCapture

NextSession ==
    \/ \E key \in CaptureKeys, sourceMode \in BOOLEAN : keydown(key, sourceMode)
    \/ timerFires
    \/ \E input \in Entered : saveBtnClick(input)
    \/ cancelBtnClick
    \/ modalClose
    \/ \E a, c \in boundaries(doc) : editorMenuAddToDictionary(a, c)
    \/ \E w \in keysOf(dictionary) : modals = <<>> /\ onDelete(w)
    \/ \E i \in 1..Len(writes) : writeResolves(i)
    \/ \E i \in 1..Len(writes) : writeRejects(i)
    \/ ViewportChange
    \/ update

SpecSession == InitSession /\ [][NextSession]_vars

\* The notes open while the dictionary is edited in the dictionary view.
Notes == UNION {[1..m -> {SH1, SPACE}] : m \in 1..MaxDocLen}

\* Changes of the store, the completion of their writes and passes of an
\* editor that shows a note: the caret rests somewhere in the note, the
\* viewport changes.
InitRefresh ==
    /\ doc \in Notes
    /\ cursor \in boundaries(doc)
    /\ anchor = cursor
    /\ settings = DEFAULT_SETTINGS
    /\ dictionary \in CaptureDictionaries
    /\ decorations = buildDecorations(doc, cursor, dictionary, settings)
    /\ viewUpdate = NoUpdate
    /\ pc = "idle"
    /\ forceRefresh = FALSE
    /\ file = MissingFile
    /\ fileAtLoad = MissingFile
    /\ writes = <<>>
    /\ saveCalls = 0
    /\ call = NoCall
    /\ notices = <<>>
    /\ raised = FALSE
    /\ now = 0
    /\ consoleErrors = 0
    /\ translation = NoTranslation
    /\ isDefiningWord = FALSE
    /\ modals = <<>>
    /\ timers = <<>>

NextRefresh ==
    \/ \E l \in Translations : onDefine(<<SH1>>, l) /\ UNCHANGED modals
    \/ \E w \in keysOf(dictionary) : onDelete(w)
    \/ \E i \in 1..Len(writes) : writeResolves(i)
    \/ \E i \in 1..Len(writes) : writeRejects(i)
    \/ ViewportChange
    \/ update

SpecRefresh == InitRefresh /\ [][NextRefresh]_vars

----------------------------------------------------------------------------
(* Paste: the paste listener and handlePasteTranslation *)

\* The conditions under which the paste listener calls preventDefault and
\* schedules handlePasteTranslation.
interceptsPaste(set, sourceMode, pastedText) ==
    /\ set.autoTranslateOnPaste
    /\ sourceMode
    /\ trim(pastedText) # <<>>
    /\ ~isShavianScript(pastedText)

\* Mutant: a text without translatable words is not inserted.
handlePasteTranslation_dropsUntranslated(pastedText, dict) ==
    LET translatedText == translateLatinToShavian(pastedText, dict)
    IN IF translatedText.translated # pastedText
       THEN Outcome(TRUE, translatedText.translated,
                    IF translatedText.hasUntranslated
                    THEN "Not all words could be translated using your dictionary"
                    ELSE "Text auto-translated (Latin -> Shavian)")
       ELSE Outcome(FALSE, <<>>, "No translatable words found")

\* handlePasteTranslation(pastedText, editor): what it inserts and the notice
\* it shows.
handlePasteTranslation(pastedText, dict) ==
    LET translatedText == translateLatinToShavian(pastedText, dict)
    IN IF translatedText.translated # pastedText
       THEN Outcome(TRUE, translatedText.translated,
                    IF translatedText.hasUntranslated
                    THEN "Not all words could be translated using your dictionary"
                    ELSE "Text auto-translated (Latin -> Shavian)")
       ELSE Outcome(TRUE, pastedText, "No translatable words found")

\* The characters of the texts scheduled for insertion and not yet inserted.
RECURSIVE pendingLen(_)
pendingLen(ts) == IF ts = <<>> THEN 0 ELSE Len(Head(ts).arg) + pendingLen(Tail(ts))

\* A paste event with the clipboard text pastedText.  The listener either
\* returns, and the host's default paste replaces the selection of the
\* focused source-mode editor with the text (a document change, for which the
\* view plugin rebuilds the decorations; a view in reading mode takes no
\* text), or it prevents the default and sets a timeout of 0 ms.
paste(pastedText, sourceMode) ==
    /\ pc = "idle"
    /\ call.n < MaxOps
    /\ Len(doc) + pendingLen(timers) + Len(pastedText) <= MaxDocLen
    /\ LET intercepts == interceptsPaste(settings, sourceMode, pastedText)
           defaultPastes == ~intercepts /\ sourceMode
       IN /\ timers' = IF intercepts
                       THEN Append(timers, Timer("handlePasteTranslation", pastedText))
                       ELSE timers
          /\ doc' = IF defaultPastes THEN replaceSelection(pastedText) ELSE doc
          /\ cursor' = IF defaultPastes THEN selectionFrom + length(pastedText)
                        ELSE cursor
          /\ anchor' = IF defaultPastes THEN cursor' ELSE anchor
          /\ decorations' = IF defaultPastes
                            THEN buildDecorations(doc', cursor', dictionary, settings)
                            ELSE decorations
    /\ call' = [n |-> call.n + 1, op |-> "paste", word |-> pastedText,
                latin |-> <<>>, sourceMode |-> sourceMode]
    /\ UNCHANGED <<viewUpdate, forceRefresh, pc, settings, dictionary>>
    /\ UNCHANGED <<file, fileAtLoad, writes, saveCalls, notices, raised, now,
                   consoleErrors>>
    /\ UNCHANGED <<translation, isDefiningWord, modals>>

\* The timeout set by the paste listener expires: handlePasteTranslation
\* replaces the selection and shows its notice.
pasteTimerFires ==
    /\ pc = "idle"
    /\ timers # <<>>
    /\ Head(timers).fn = "handlePasteTranslation"
    /\ LET pastedText == Head(timers).arg
           o == handlePasteTranslation(pastedText, dictionary)
           t == translateLatinToShavian(pastedText, dictionary)
       IN /\ doc' = IF o.replaces THEN replaceSelection(o.text) ELSE doc
          /\ cursor' = IF o.replaces THEN selectionFrom + length(o.text) ELSE cursor
          /\ anchor' = IF o.replaces THEN cursor' ELSE anchor
          /\ decorations' = IF o.replaces
                            THEN buildDecorations(doc', cursor', dictionary, settings)
                            ELSE decorations
          /\ translation' = [n |-> translation.n + 1, text |-> t.text,
                              words |-> t.words, translated |-> t.translated,
                              hasUntranslated |-> t.hasUntranslated,
                              reverseMap |-> t.reverseMap]
          /\ notices' = Append(notices, Notice(o.notice, <<>>, <<>>))
    /\ timers' = Tail(timers)
    /\ UNCHANGED <<viewUpdate, forceRefresh, pc, settings, dictionary>>
    /\ UNCHANGED <<file, fileAtLoad, writes, saveCalls, call, raised, now,
                   consoleErrors>>
    /\ UNCHANGED <<isDefiningWord, modals>>

\* The "Auto-translate on paste" toggle of the settings tab.
setAutoTranslateOnPaste(value) ==
    /\ pc = "idle"
    /\ value # settings.autoTranslateOnPaste
    /\ settings' = [settings EXCEPT !.autoTranslateOnPaste = value]
    /\ UNCHANGED <<dictionary, pc>>
    /\ UNCHANGED viewVars
    /\ UNCHANGED storeVars
    /\ UNCHANGED flowVars

\* The characters of the clipboard texts.
PasteCharacters == {"a", "b", SPACE, SH1}

\* The clipboard texts.
PasteTexts == UNION {[1..m -> PasteCharacters] : m \in 1..(MaxDocLen - 1)}

\* The plugin is loaded and an editor is open on an empty note, or on a note
\* whose one character is selected.
InitPaste ==
    /\ doc \in {<<>>, <<"b">>}
    /\ anchor = 0
    /\ cursor = length(doc)
    /\ settings = DEFAULT_SETTINGS
    /\ dictionary \in BatchDictionaries
    /\ decorations = buildDecorations(doc, cursor, dictionary, settings)
    /\ viewUpdate = NoUpdate
    /\ pc = "idle"
    /\ forceRefresh = FALSE
    /\ file = MissingFile
    /\ fileAtLoad = MissingFile
    /\ writes = <<>>
    /\ saveCalls = 0
    /\ call = NoCall
    /\ notices = <<>>
    /\ raised = FALSE
    /\ now = 0
    /\ consoleErrors = 0
    /\ translation = NoTranslation
    /\ isDefiningWord = FALSE
    /\ modals = <<>>
    /\ timers = <<>>

NextPaste ==
    \/ \E pastedText \in PasteTexts, sourceMode \in BOOLEAN : paste(pastedText, sourceMode)
    \/ pasteTimerFires
    \/ \E value \in BOOLEAN : setAutoTranslateOnPaste(value)

SpecPaste == InitPaste /\ [][NextPaste]_vars

----------------------------------------------------------------------------
(* What the decoration claims speak of *)

\* The script tokens of a document, stated without the scanner: a maximal run
\* of Shavian letters at indices i..j, with the interpunct before it if any.
scriptTokens(d) ==
    { [start |-> offsetOf(d, IF i > 1 /\ d[i - 1] = INTERPUNCT THEN i - 1 ELSE i),
       end |-> offsetOf(d, j + 1),
       base |-> SubSeq(d, i, j),
       marked |-> (i > 1 /\ d[i - 1] = INTERPUNCT),
       afterMarker |-> (i > 2 /\ d[i - 1] = INTERPUNCT /\ d[i - 2] = INTERPUNCT)] :
      <<i, j>> \in { p \in (1..Len(d)) \X (1..Len(d)) :
                       /\ p[1] <= p[2]
                       /\ \A m \in p[1]..p[2] : d[m] \in ShavianLetters
                       /\ (p[1] = 1 \/ d[p[1] - 1] \notin ShavianLetters)
                       /\ (p[2] = Len(d) \/ d[p[2] + 1] \notin ShavianLetters) } }

\* The offsets of the quotation markers of a document.
quoteOffsets(d) == {offsetOf(d, k) : k \in {i \in 1..Len(d) : d[i] \in {LSAQUO, RSAQUO}}}

\* The spans of the displayed set that overlap [s, e).
spansOver(s, e) ==
    {i \in 1..Len(decorations) : decorations[i].from < e /\ s < decorations[i].to}

\* The translation stored under a key.
storedLatin(key) ==
    (CHOOSE m \in {dictionary[i] : i \in 1..Len(dictionary)} : m.shavian = key).latin

\* A translation with its first character uppercased.
capitalised(latin) ==
    IF latin = <<>> THEN latin ELSE <<toUpperCase(Head(latin))>> \o Tail(latin)

\* No handler is running: the displayed set is the result of the last pass.
passDone == pc = "idle"

\* C1: after a decoration pass, a script token [s, e) with the caret at any
\* offset s <= c <= e is covered by no decoration, whatever the dictionary and
\* the settings: the word being typed stays raw script text.
C1_CaretTokenStaysRaw ==
    passDone =>
        \A t \in scriptTokens(doc) :
            (t.start <= cursor /\ cursor <= t.end) => spansOver(t.start, t.end) = {}

\* A token whose base word is defined, auto-translate on, caret at its end.
C1_Witness ==
    /\ passDone
    /\ settings.autoTranslateEnabled
    /\ \E t \in scriptTokens(doc) :
           /\ has(dictionary, t.base)
           /\ cursor = t.end
           /\ spansOver(t.start, t.end) = {}

\* C2: after a decoration pass no span [from, to) touches the caret: the caret
\* is before from or after to, for word and quotation spans alike.
C2_NoSpanTouchesCaret ==
    passDone =>
        \A i \in 1..Len(decorations) :
            cursor < decorations[i].from \/ cursor > decorations[i].to

\* The caret right after a quotation marker left raw, beside a decorated one.
C2_Witness ==
    /\ passDone
    /\ \E q \in quoteOffsets(doc) : cursor = q + 1 /\ spansOver(q, q + 1) = {}
    /\ \E i \in 1..Len(decorations) : decorations[i].widget.type = "QuotationWidget"

\* C3: the spans of one pass are sorted by start, pairwise disjoint (word and
\* quotation spans together), non-empty, inside the document, and none
\* contains a line break.
C3_SortedDisjointWithinLine ==
    passDone =>
        /\ \A i, j \in 1..Len(decorations) :
               i < j => decorations[i].to <= decorations[j].from
        /\ \A i \in 1..Len(decorations) :
               /\ 0 <= decorations[i].from
               /\ decorations[i].from < decorations[i].to
               /\ decorations[i].to <= length(doc)
               /\ \A k \in 1..Len(doc) :
                      doc[k] = NEWLINE =>
                          ~(decorations[i].from <= offsetOf(doc, k)
                            /\ offsetOf(doc, k) < decorations[i].to)

\* A translated word followed on its line by a replaced quotation marker.
C3_Witness ==
    /\ passDone
    /\ \E i \in 1..(Len(decorations) - 1) :
           /\ decorations[i].widget.type = "LatinWidget"
           /\ decorations[i + 1].widget.type = "QuotationWidget"
           /\ decorations[i].to = decorations[i + 1].from

\* C4: with auto-translate enabled and the caret away from a token, the pass
\* emits exactly one span for it when its base word is a dictionary key: the
\* span covers the whole token, marker included, and shows the stored
\* translation, first character uppercased exactly when the token is a name;
\* when the base word is no key the token gets no span.
C4_HitRendersTranslation ==
    (passDone /\ settings.autoTranslateEnabled) =>
        \A t \in scriptTokens(doc) :
            (cursor < t.start \/ cursor > t.end) =>
                IF has(dictionary, t.base)
                THEN /\ Cardinality(spansOver(t.start, t.end)) = 1
                     /\ \A i \in spansOver(t.start, t.end) :
                            /\ decorations[i].from = t.start
                            /\ decorations[i].to = t.end
                            /\ decorations[i].widget.type = "LatinWidget"
                            /\ decorations[i].widget.text =
                                   IF t.marked \/ t.afterMarker
                                   THEN capitalised(storedLatin(t.base))
                                   ELSE storedLatin(t.base)
                ELSE spansOver(t.start, t.end) = {}

\* A marked token whose translation starts with a lowercase letter is shown
\* capitalised, while an unmarked token of the same pass is shown as stored.
C4_Witness ==
    /\ passDone
    /\ settings.autoTranslateEnabled
    /\ \E t \in scriptTokens(doc) :
           /\ t.marked
           /\ has(dictionary, t.base)
           /\ storedLatin(t.base) # capitalised(storedLatin(t.base))
           /\ \E i \in spansOver(t.start, t.end) :
                  decorations[i].widget.text = capitalised(storedLatin(t.base))

\* C5 as stated: a token with a dictionary hit is left raw only while the
\* caret is strictly inside it, and is replaced when the caret is before its
\* start or at or after its end (caret = end included).
C5_SkippedOnlyStrictlyInside ==
    (passDone /\ settings.autoTranslateEnabled) =>
        \A t \in scriptTokens(doc) :
            has(dictionary, t.base) =>
                /\ (cursor < t.start \/ cursor >= t.end) => spansOver(t.start, t.end) # {}
                /\ (t.start < cursor /\ cursor < t.end) => spansOver(t.start, t.end) = {}

\* C5 amended: a token with a dictionary hit is replaced exactly when
\* auto-translate is enabled and the caret is before its start or after its
\* end; with the caret at start, inside, or at end it is left raw.
C5_SkippedWithinClosedRange ==
    passDone =>
        \A t \in scriptTokens(doc) :
            has(dictionary, t.base) =>
                (spansOver(t.start, t.end) # {}
                 <=> (settings.autoTranslateEnabled
                      /\ (cursor < t.start \/ cursor > t.end)))

\* One defined token with the caret at its end (raw) and another with the
\* caret one past its end (replaced).
C5_Witness ==
    /\ passDone
    /\ settings.autoTranslateEnabled
    /\ \E t \in scriptTokens(doc) :
           has(dictionary, t.base) /\ cursor = t.end + 1 /\ spansOver(t.start, t.end) # {}

\* C6: the step in which the view plugin handles an update (whatever raised
\* it: document, viewport or caret change, or force refresh) changes the
\* decoration set only: buffer, caret, dictionary, settings, the persisted
\* file and everything else stay as they were.
C6_PassChangesDecorationsOnly ==
    [][viewUpdate.pending =>
           /\ doc' = doc
           /\ cursor' = cursor
           /\ dictionary' = dictionary
           /\ settings' = settings
           /\ UNCHANGED <<file, writes, saveCalls, notices, forceRefresh>>]_vars

\* A force refresh has rebuilt a non-empty decoration set.
C6_Witness ==
    /\ pc = "refreshed"
    /\ forceRefresh
    /\ ~settings.autoTranslateEnabled
    /\ decorations # <<>>

----------------------------------------------------------------------------
(* What the dictionary store claims speak of *)

\* The step is a call of the named dictionary handler.
calls(op) == call'.n = call.n + 1 /\ call'.op = op

\* The indices of the records kept when the key w is deleted.
keptWithout(w) == {i \in 1..Len(dictionary) : dictionary[i].shavian # w}

\* C7: define(script, translation) on a key of the store overwrites that
\* record's translation only: its createdAt, the size of the store and every
\* other record stay (the same translation again changes nothing); on an
\* absent key it inserts one new record, stamped with the current time; in
\* both cases exactly one save is issued.
C7_DefineOverwritesTranslationOnly ==
    [][calls("addWordMapping") =>
           /\ IF has(dictionary, call'.word)
              THEN /\ Len(dictionary') = Len(dictionary)
                   /\ \A i \in 1..Len(dictionary) :
                          dictionary'[i] =
                              IF dictionary[i].shavian = call'.word
                              THEN Mapping(call'.word, call'.latin,
                                           dictionary[i].dateAdded)
                              ELSE dictionary[i]
                   /\ (storedLatin(call'.word) = call'.latin
                          => dictionary' = dictionary)
              ELSE dictionary' = Append(dictionary,
                                        Mapping(call'.word, call'.latin, now))
           /\ saveCalls' = saveCalls + 1
           /\ Len(writes') = Len(writes) + 1]_vars

\* A key defined before this call now has the new translation and its old
\* createdAt, beside another record, after one save per call.
C7_Witness ==
    /\ call.op = "addWordMapping"
    /\ Len(dictionary) >= 2
    /\ saveCalls = call.n
    /\ \E i \in 1..Len(dictionary) :
           /\ dictionary[i].shavian = call.word
           /\ dictionary[i].latin = call.latin
           /\ dictionary[i].dateAdded < now - 1
           /\ \E j \in 1..Len(notices) :
                  /\ notices[j].kind = "Added"
                  /\ notices[j].word = call.word
                  /\ notices[j].latin # call.latin

\* C8: remove(script) deletes the record of a present key and leaves the
\* store as it is for an absent one; the other records keep their values and
\* order; a save is issued and a confirmation notice is shown in both cases.
C8_RemoveDeletesOnlyThatRecord ==
    [][calls("removeWordMapping") =>
           /\ Len(dictionary') = Cardinality(keptWithout(call'.word))
           /\ \A i \in keptWithout(call'.word) :
                  dictionary'[Cardinality({j \in keptWithout(call'.word) : j <= i})]
                      = dictionary[i]
           /\ (~has(dictionary, call'.word) => dictionary' = dictionary)
           /\ saveCalls' = saveCalls + 1
           /\ Len(writes') = Len(writes) + 1
           /\ notices' = Append(notices, Notice("Removed", call'.word, <<>>))]_vars

\* The first record of a loaded two-record store has been removed and the
\* second is still there.
C8_Witness ==
    /\ call.n = 1
    /\ call.op = "removeWordMapping"
    /\ Len(loadDictionary(fileAtLoad, 0).dictionary) = 2
    /\ loadDictionary(fileAtLoad, 0).dictionary[1].shavian = call.word
    /\ Len(dictionary) = 1
    /\ ~has(dictionary, call.word)

\* The file could not be read, is not JSON, or holds a JSON value that is
\* neither an object nor an array.
loadFailed(f) ==
    \/ f.kind \in {"missing", "unreadable", "malformed"}
    \/ f.kind = "json" /\ f.root.t \notin {"object", "array"}

\* C9: load never raises, whatever reading and parsing the file gives
\* (missing file, read error, malformed JSON, unexpected shape), and on each
\* of these errors it leaves the store empty.
C9_LoadNeverFailsErrorsLeaveEmpty ==
    pc # "constructed" =>
        /\ ~raised
        /\ (call.n = 0 /\ loadFailed(fileAtLoad)) => dictionary = <<>>

\* The entries a file lists: the dictionary member of the canonical shape,
\* the elements of a bare array, the members of a bare object.
listedEntries(root) ==
    IF root.t = "object" /\ getProp(root, P_dictionary).t = "array"
    THEN getProp(root, P_dictionary).items
    ELSE IF root.t \in {"object", "array"} THEN root.items ELSE <<>>

\* A pair [key, value] with a string key and, as value, a string or a record
\* with a string latin.
wellFormedEntry(e) ==
    /\ e.t = "array"
    /\ Len(e.items) = 2
    /\ e.items[1].t = "string"
    /\ \/ e.items[2].t = "string"
       \/ e.items[2].t = "object" /\ getProp(e.items[2], P_latin).t = "string"

\* The key and translation of each well-formed entry of a file.
wellFormedEntries(root) ==
    { [key |-> listedEntries(root)[i].items[1].s,
       latin |-> IF listedEntries(root)[i].items[2].t = "string"
                 THEN listedEntries(root)[i].items[2].s
                 ELSE getProp(listedEntries(root)[i].items[2], P_latin).s] :
      i \in {k \in 1..Len(listedEntries(root)) :
                wellFormedEntry(listedEntries(root)[k])} }

\* C10: when the file parses and lists well-formed entries beside a malformed
\* one, every well-formed entry is in the store after load, and as long as
\* none is removed a later save leaves them all in the file.
C10_PartialCorruptionLosesNothing ==
    (pc # "constructed" /\ fileAtLoad.kind = "json") =>
        /\ call.n = 0 =>
               \A e \in wellFormedEntries(fileAtLoad.root) :
                   has(dictionary, e.key) /\ storedLatin(e.key) = e.latin
        /\ (file.kind = "json"
            /\ \A j \in 1..Len(notices) : notices[j].kind # "Removed") =>
               \A e \in wellFormedEntries(fileAtLoad.root) :
                   \E x \in wellFormedEntries(file.root) : x.key = e.key

\* Every entry a file lists is a well-formed pair.
wellFormedFile(f) ==
    /\ f.kind = "json"
    /\ f.root.t \in {"object", "array"}
    /\ \A i \in 1..Len(listedEntries(f.root)) :
           wellFormedEntry(listedEntries(f.root)[i])

\* C11: load reads the canonical shape {dictionary: pairs} first (its other
\* members give no record), else a bare array of pairs, else a bare object
\* member by member; for a file of well-formed entries (each key listed
\* once) the store has exactly one record per entry, under the entry's key,
\* whose translation is the value when it is a string and the value's latin
\* field when it is a record.
C11_LoadReadsTheThreeShapes ==
    (pc # "constructed" /\ call.n = 0 /\ wellFormedFile(fileAtLoad)) =>
        /\ Len(dictionary) = Len(listedEntries(fileAtLoad.root))
        /\ \A e \in wellFormedEntries(fileAtLoad.root) :
               has(dictionary, e.key) /\ storedLatin(e.key) = e.latin

\* A canonical file with its metadata members has been loaded into two
\* records.
C11_Witness ==
    /\ pc = "idle"
    /\ call.n = 0
    /\ wellFormedFile(fileAtLoad)
    /\ fileAtLoad.root.t = "object"
    /\ Len(fileAtLoad.root.items) = 4
    /\ Len(dictionary) = 2

\* Two stores have the same keys and the same translation for each key.
sameForward(a, b) ==
    /\ keysOf(a) = keysOf(b)
    /\ \A k \in keysOf(a) : get(a, k).latin = get(b, k).latin

\* The step issues a save.
saves == saveCalls' = saveCalls + 1

\* C12: round trip: whenever a save is issued (after a define, a remove or at
\* deactivation), loading the text that save writes yields a store with the
\* same keys and the same translation for each key as the store saved.
C12_SaveThenLoadRoundTrips ==
    [][saves =>
           sameForward(loadDictionary(JSONFile(writes'[Len(writes')]), now').dictionary,
                       dictionary')]_vars

\* The last save after two defines has completed, and the file it wrote
\* loads into the two records of the store.
C12_Witness ==
    /\ call.n = 2
    /\ call.op = "addWordMapping"
    /\ writes = <<>>
    /\ consoleErrors = 0
    /\ file # fileAtLoad
    /\ Len(dictionary) = 2
    /\ sameForward(loadDictionary(file, now).dictionary, dictionary)

\* The step is the failure of a write: saveDictionary's catch has logged it.
writeFails == consoleErrors' = consoleErrors + 1

\* C13: when the write of a save fails the failure ends inside save: no
\* exception reaches a handler, the store in memory stays exactly as the
\* mutation left it, the file stays as it was, and no further save or write
\* is issued for it (the failed write is gone and no new one is in flight).
C13_FailedWriteLeavesStoreNoRetry ==
    [][writeFails =>
           /\ ~raised'
           /\ dictionary' = dictionary
           /\ file' = file
           /\ saveCalls' = saveCalls
           /\ Len(writes') = Len(writes) - 1
           /\ \A i \in 1..Len(writes') : \E j \in 1..Len(writes) : writes'[i] = writes[j]
           /\ UNCHANGED <<call, notices, pc>>]_vars

\* The only save of a define has failed: the store has the defined word, the
\* file is the one loaded, and nothing is in flight.
C13_Witness ==
    /\ pc = "idle"
    /\ call.n = 1
    /\ call.op = "addWordMapping"
    /\ saveCalls = 1
    /\ consoleErrors = 1
    /\ writes = <<>>
    /\ file = fileAtLoad
    /\ ~raised
    /\ has(dictionary, call.word)
    /\ ~has(loadDictionary(file, now).dictionary, call.word)

----------------------------------------------------------------------------
(* What the batch translation claims speak of *)

\* A segment is a run of word characters, or of none.
wordSegment(w) == w # <<>> /\ \A j \in 1..Len(w) : w[j] \in WordCharacters
nonWordSegment(w) == w # <<>> /\ \A j \in 1..Len(w) : w[j] \notin WordCharacters

\* The records of the store whose translation, lowercased, is the lowercase
\* form of w.
entriesFor(w) ==
    {i \in 1..Len(dictionary) :
        toLowerCaseOf(dictionary[i].latin) = toLowerCaseOf(w)}

\* The key the reverse index maps the word w to.
keyFor(w) ==
    dictionary[CHOOSE i \in entriesFor(w) : \A j \in entriesFor(w) : j <= i].shavian

\* What batch translation emits for one segment.
emitted(w) ==
    IF wordSegment(w) /\ entriesFor(w) # {}
    THEN (IF w[1] \in UppercaseLetters THEN <<INTERPUNCT>> ELSE <<>>) \o keyFor(w)
    ELSE w

\* s occurs in t.
occursIn(s, t) == \E p \in 0..(Len(t) - Len(s)) : SubSeq(t, p + 1, p + Len(s)) = s

\* The word segments of the last translation that have no reverse-index entry.
missingWords ==
    {i \in 1..Len(translation.words) :
        wordSegment(translation.words[i]) /\ entriesFor(translation.words[i]) = {}}

\* translateLatinToShavian has been called.
wasTranslated == translation.n > 0

\* C14: the segments the tokenizer produces for a text are all non-empty, each
\* is a run of word characters or a run of non-word characters, neighbours are
\* of different kinds, and joined in order they are the text.
C14_SegmentsAlternateAndCoverInput ==
    wasTranslated =>
        /\ \A i \in 1..Len(translation.words) :
               wordSegment(translation.words[i]) \/ nonWordSegment(translation.words[i])
        /\ \A i \in 1..(Len(translation.words) - 1) :
               wordSegment(translation.words[i]) # wordSegment(translation.words[i + 1])
        /\ join(translation.words) = translation.text

\* A text of the greatest length cut into at least two segments, one of them
\* a non-word run of two characters.
C14_Witness ==
    /\ wasTranslated
    /\ Len(translation.text) = MaxDocLen
    /\ Len(translation.words) >= 2
    /\ \E i \in 1..Len(translation.words) :
           nonWordSegment(translation.words[i]) /\ Len(translation.words[i]) >= 2

\* C15: the output of batch translation is, segment by segment and in order:
\* for a word segment whose lowercase form is in the reverse index the mapped
\* key, preceded by the proper-noun marker exactly when the segment begins
\* with an uppercase letter; for every other segment the segment itself.
C15_HitsEmitKeyNonWordsVerbatim ==
    wasTranslated =>
        translation.translated =
            join([i \in 1..Len(translation.words) |-> emitted(translation.words[i])])

\* A capitalised hit, a non-word segment and a lowercase hit in one text.
C15_Witness ==
    /\ wasTranslated
    /\ Len(translation.words) = 3
    /\ isCapitalised(translation.words[1])
    /\ entriesFor(translation.words[1]) # {}
    /\ nonWordSegment(translation.words[2])
    /\ ~isCapitalised(translation.words[3])
    /\ entriesFor(translation.words[3]) # {}
    /\ translation.translated
           = <<INTERPUNCT>> \o keyFor(translation.words[1]) \o translation.words[2]
                 \o keyFor(translation.words[3])

\* C16: hasUntranslated is true exactly when some word segment of the input
\* has no reverse-index entry, and each such segment occurs unchanged in the
\* output.
C16_FlagIffSomeWordMissing ==
    wasTranslated =>
        /\ translation.hasUntranslated <=> (missingWords # {})
        /\ \A i \in missingWords :
               occursIn(translation.words[i], translation.translated)

\* A partial translation: one word translated, one passed through and flagged.
C16_Witness ==
    /\ wasTranslated
    /\ translation.hasUntranslated
    /\ translation.translated # translation.text
    /\ \E i \in missingWords : occursIn(translation.words[i], translation.translated)
    /\ \E i \in 1..Len(translation.words) :
           wordSegment(translation.words[i]) /\ i \notin missingWords

\* The maximal runs of word characters of a text.
wordsIn(text) ==
    { SubSeq(text, p[1], p[2]) :
        p \in { q \in (1..Len(text)) \X (1..Len(text)) :
                  /\ q[1] <= q[2]
                  /\ \A m \in q[1]..q[2] : text[m] \in WordCharacters
                  /\ (q[1] = 1 \/ text[q[1] - 1] \notin WordCharacters)
                  /\ (q[2] = Len(text) \/ text[q[2] + 1] \notin WordCharacters) } }

\* A usage error of translate-selection: nothing selected, script text in the
\* selection, or no word of the selection in the reverse index.
usageError(selection) ==
    \/ selection = <<>>
    \/ isShavianScript(selection)
    \/ \A w \in wordsIn(selection) : entriesFor(w) = {}

\* C17: translate-selection invoked with a usage error (no selection, script
\* text selected, no word with an entry) shows one notice and leaves the
\* buffer, the selection, the dictionary and the persisted file unchanged.
C17_UsageErrorsMutateNothing ==
    [][(calls("translateSelectedText") /\ usageError(call'.word)) =>
           /\ doc' = doc
           /\ cursor' = cursor
           /\ anchor' = anchor
           /\ dictionary' = dictionary
           /\ Len(notices') = Len(notices) + 1
           /\ UNCHANGED <<file, writes, saveCalls, settings>>]_vars

\* A Latin selection none of whose words is in the non-empty store has been
\* reported as not translatable and left in the buffer.
C17_Witness ==
    /\ call.op = "translateSelectedText"
    /\ usageError(call.word)
    /\ call.word # <<>>
    /\ ~isShavianScript(call.word)
    /\ wordsIn(call.word) # {}
    /\ dictionary # <<>>
    /\ notices[Len(notices)].kind = "No translatable words found in selection"
    /\ doc # <<>>

----------------------------------------------------------------------------
(* What the capture flow claims speak of *)

\* The characters before the caret on the caret's line, as indices of doc.
beforeCaret ==
    {j \in 1..(indexAt(doc, cursor) - 1) :
        \A m \in j..(indexAt(doc, cursor) - 1) : doc[m] # NEWLINE}

\* The word immediately preceding the caret: the run of non-blank characters
\* that ends at the last non-blank character before the caret on its line.
precedingWord ==
    LET solid == {j \in beforeCaret : doc[j] \notin Whitespace}
    IN IF solid = {} THEN <<>>
       ELSE LET e == CHOOSE j \in solid : \A m \in solid : m <= j
                b == CHOOSE j \in solid :
                         /\ \A m \in j..e : m \in solid
                         /\ (j - 1) \notin solid
            IN SubSeq(doc, b, e)

\* The step is a space typed into the editor at the caret.
typesSpace ==
    /\ Len(doc') = Len(doc) + 1
    /\ cursor' = cursor + 1
    /\ doc'[indexAt(doc, cursor)] = SPACE

\* The flow is Idle, or AwaitingDefinition.
Idle == ~isDefiningWord
AwaitingDefinition == isDefiningWord

\* C18: a space typed while the flow is Idle requests a definition prompt for
\* exactly the word preceding the caret when that word is script text and no
\* dictionary key, and requests nothing otherwise (flow, prompts and store
\* stay as they are); a requested prompt opens when its 50 ms timeout expires,
\* for the word it was requested for, and the flow is AwaitingDefinition then.
C18_SpaceAfterUnknownWordPrompts ==
    [][/\ (typesSpace /\ Idle) =>
              /\ timers' = IF isShavianScript(precedingWord)
                              /\ ~has(dictionary, precedingWord)
                           THEN Append(timers, Timer("showDefinitionModal",
                                                     precedingWord))
                           ELSE timers
              /\ UNCHANGED <<modals, isDefiningWord, dictionary, saveCalls>>
       /\ Len(timers') < Len(timers) =>
              /\ AwaitingDefinition'
              /\ modals' = Append(modals, Head(timers).arg)
              /\ timers' = Tail(timers)]_vars

\* The prompt for the unknown script word before the caret is open, the space
\* that requested it is in the buffer, and the flow awaits the definition.
C18_Witness ==
    /\ AwaitingDefinition
    /\ timers = <<>>
    /\ modals = <<precedingWord>>
    /\ isShavianScript(precedingWord)
    /\ ~has(dictionary, precedingWord)
    /\ dictionary # <<>>
    /\ cursor > 0
    /\ doc[indexAt(doc, cursor) - 1] = SPACE

\* C19: confirming the prompt with input that is not empty once trimmed calls
\* define for the prompted word and the trimmed input, issues one save, closes
\* the prompt and returns the flow to Idle; cancelling closes the prompt and
\* returns the flow to Idle with the store unchanged and no save; confirming
\* with empty input changes nothing.
C19_ConfirmDefinesCancelLeavesStore ==
    [][/\ calls("addWordMapping") =>
              /\ modals # <<>>
              /\ call'.word = modals[Len(modals)]
              /\ call'.latin # <<>>
              /\ Head(call'.latin) \notin Whitespace
              /\ call'.latin[Len(call'.latin)] \notin Whitespace
              /\ dictionary' = addWordMapping(dictionary, call'.word, call'.latin, now)
              /\ saveCalls' = saveCalls + 1
              /\ Len(writes') = Len(writes) + 1
              /\ modals' = SubSeq(modals, 1, Len(modals) - 1)
              /\ Idle'
       /\ calls("cancelBtn.onclick") =>
              /\ modals' = SubSeq(modals, 1, Len(modals) - 1)
              /\ Idle'
              /\ UNCHANGED <<dictionary, saveCalls, writes, file, notices>>
       /\ calls("saveBtn.onclick") =>
              UNCHANGED <<dictionary, saveCalls, writes, file, notices, modals,
                          isDefiningWord, timers, doc, cursor>>]_vars

\* A prompt was cancelled and the next one confirmed: one save, the word is
\* in the store with the entered translation, and the flow is Idle.
C19_Witness ==
    /\ call.n = 2
    /\ call.op = "addWordMapping"
    /\ saveCalls = 1
    /\ Len(writes) = 1
    /\ Idle
    /\ modals = <<>>
    /\ timers = <<>>
    /\ has(dictionary, call.word)
    /\ storedLatin(call.word) = call.latin
    /\ notices = <<Notice("Added", call.word, call.latin)>>

\* C20: at most one definition prompt is open at any moment.
C20_AtMostOnePromptOpen == Len(modals) <= 1

\* C21: every way of closing the prompt without confirming (cancel button,
\* Escape in the input, the host closing the modal) returns the flow to Idle.
C21_EveryCloseReturnsToIdle ==
    [][(calls("cancelBtn.onclick") \/ calls("onClose")) => Idle']_vars

----------------------------------------------------------------------------
(* What the session and refresh claims say *)

\* A step in which the view plugin recomputes the decorations: an update that
\* rebuilds, or a host change of the buffer or the selection.
recomputes ==
    \/ pc = "update" /\ pc' = "idle" /\ rebuilds(viewUpdate, forceRefresh)
    \/ doc' # doc
    \/ cursor' # cursor
    \/ anchor' # anchor

\* C23: define and remove update the store in memory and then issue the save,
\* which carries the updated store; no other step (a write completing or
\* failing included) changes the store; and every recomputation of the
\* decorations is built from the store as it is then, with writes in flight
\* or failed or neither, in the same step: it waits on no save.
C23_PassReadsStoreAsMutated ==
    [][/\ calls("addWordMapping") =>
              /\ dictionary' = addWordMapping(dictionary, call'.word, call'.latin, now)
              /\ writes' = Append(writes, exportData(dictionary', now))
       /\ calls("removeWordMapping") =>
              /\ dictionary' = removeWordMapping(dictionary, call'.word)
              /\ writes' = Append(writes, exportData(dictionary', now))
       /\ (~calls("addWordMapping") /\ ~calls("removeWordMapping")) =>
              dictionary' = dictionary
       /\ recomputes =>
              decorations' = buildDecorations(doc', cursor', dictionary', settings')]_vars

\* A pass has shown the translation just defined while the write of an
\* earlier save has failed and the write of this one is still in flight.
C23_Witness ==
    /\ pc = "idle"
    /\ call.op = "addWordMapping"
    /\ consoleErrors > 0
    /\ writes # <<>>
    /\ file = MissingFile
    /\ \E i \in 1..Len(decorations) :
           /\ decorations[i].widget.type = "LatinWidget"
           /\ decorations[i].widget.text = call.latin
           /\ call.latin # <<"a">>

\* C24: once a trigger has been handled (a change of the document, of the
\* viewport or of the selection, or the force refresh after a toggle of
\* auto-translate) the displayed set is what the builder produces from the
\* current text, caret, dictionary and settings, and forceRefresh is false
\* again once refreshAllViews has returned.
C24_TriggersRecomputeFully ==
    passDone =>
        /\ decorations = buildDecorations(doc, cursor, dictionary, settings)
        /\ ~forceRefresh

\* Auto-translate has been toggled off and the refresh has left a dictionary
\* word, caret elsewhere, as raw script text.
C24_Witness ==
    /\ passDone
    /\ notices # <<>>
    /\ ~settings.autoTranslateEnabled
    /\ \E t \in scriptTokens(doc) :
           /\ has(dictionary, t.base)
           /\ (cursor < t.start \/ cursor > t.end)
           /\ spansOver(t.start, t.end) = {}

\* C25: every key of the store is one or more letters of the script block and
\* nothing else (no proper-noun marker, punctuation or Latin character),
\* whichever path created it.
C25_KeysAreScriptLettersOnly ==
    \A key \in keysOf(dictionary) :
        /\ key # <<>>
        /\ \A k \in 1..Len(key) : key[k] \in ShavianLetters

\* C26: on every translation request the reverse index is built from the
\* store as it is then: it holds exactly the lowercase forms of the stored
\* translations, and maps each to the key of the last record, in the store's
\* insertion order, that has this lowercase form; a word segment with an entry
\* is emitted as that key.
C26_ReverseIndexLastWins ==
    [][translation'.n = translation.n + 1 =>
           /\ {translation'.reverseMap[i].latin : i \in 1..Len(translation'.reverseMap)}
                  = {toLowerCaseOf(dictionary[i].latin) : i \in 1..Len(dictionary)}
           /\ \A i \in 1..Len(dictionary) :
                  reverseMapGet(translation'.reverseMap,
                                toLowerCaseOf(dictionary[i].latin))
                      = keyFor(dictionary[i].latin)
           /\ \A i \in 1..Len(translation'.words) :
                  (wordSegment(translation'.words[i])
                       /\ entriesFor(translation'.words[i]) # {}) =>
                      occursIn(keyFor(translation'.words[i]), translation'.translated)]_vars

\* A word with two keys in the store was translated to the key defined just
\* before the request, which is the last of the two.
C26_Witness ==
    /\ wasTranslated
    /\ call.n = 2
    /\ notices[1].kind = "Added"
    /\ Len(translation.words) = 1
    /\ Cardinality(entriesFor(translation.words[1])) >= 2
    /\ keyFor(translation.words[1]) = notices[1].word
    /\ translation.translated = notices[1].word

\* C27: once every save that was issued has completed, none of them with a
\* failure, the file read back gives the keys and translations of the store
\* in memory.
C27_CompletedSavesLeaveFileEqualStore ==
    (saveCalls > 0 /\ writes = <<>> /\ consoleErrors = 0) =>
        sameForward(loadDictionary(file, now).dictionary, dictionary)

\* C28: isDefiningWord is true exactly when a definition prompt is open: never
\* true with none open, never false while one is open.
C28_FlagIffPromptOpen ==
    isDefiningWord <=> (modals # <<>>)

\* C29: the step in which a define or a remove is done leaves the displayed
\* decoration set in agreement with the updated dictionary, with no further
\* document, viewport or caret event.
C29_MutationRefreshesDecorations ==
    [][(calls("addWordMapping") \/ calls("removeWordMapping")) =>
           decorations' = buildDecorations(doc', cursor', dictionary', settings')]_vars

\* The places where the word w stands in the buffer between blanks (or the
\* ends of the buffer): the indices of its first character.
standsAt(w) ==
    {p \in 1..(Len(doc) - Len(w) + 1) :
        /\ SubSeq(doc, p, p + Len(w) - 1) = w
        /\ (p = 1 \/ doc[p - 1] \in Whitespace)
        /\ (p + Len(w) > Len(doc) \/ doc[p + Len(w)] \in Whitespace)}

\* The definitions confirmed in the modal that the store still holds.
confirmedDefinitions ==
    {i \in 1..Len(notices) :
        /\ notices[i].kind = "Added"
        /\ has(dictionary, notices[i].word)
        /\ get(dictionary, notices[i].word).latin = notices[i].latin}

\* C30: when the displayed set is the result of a pass over the current
\* state, with auto-translate enabled, every word that was prompted for and
\* confirmed, wherever it stands in the buffer with the caret elsewhere, is
\* rendered as the entered translation, a word with a leading proper-noun
\* marker or adjacent punctuation included.
C30_ConfirmedWordRendersTranslation ==
    (/\ passDone
     /\ settings.autoTranslateEnabled
     /\ decorations = buildDecorations(doc, cursor, dictionary, settings)) =>
        \A n \in confirmedDefinitions :
            \A p \in standsAt(notices[n].word) :
                LET s == offsetOf(doc, p)
                    e == offsetOf(doc, p + Len(notices[n].word))
                IN (cursor < s \/ cursor > e) =>
                       \E i \in spansOver(s, e) :
                           /\ decorations[i].widget.type = "LatinWidget"
                           /\ decorations[i].widget.text
                                  \in {notices[n].latin, capitalised(notices[n].latin)}

----------------------------------------------------------------------------
(* What the paste claim says *)

\* The step is a paste event; the step is an insertion by the paste handler.
pastes == calls("paste")
handlerInserts ==
    /\ timers # <<>>
    /\ Head(timers).fn = "handlePasteTranslation"
    /\ timers' = Tail(timers)

\* The text after the selection is replaced by text.
withSelectionReplaced(text) ==
    SubSeq(doc, 1, indexAt(doc, selectionFrom) - 1) \o text
        \o SubSeq(doc, indexAt(doc, selectionTo), Len(doc))

\* C31: for a paste into the editor in source mode: with autoTranslateOnPaste
\* disabled, or a pasted text that is blank or holds a script character, the
\* handler schedules no insertion and the default paste inserts the text;
\* otherwise the default paste is preempted (the buffer stays as it is) and
\* one insertion is scheduled, which replaces the selection, once, with the
\* translated output when it differs from the pasted text and with the pasted
\* text when it does not; with no source-mode view the handler does nothing;
\* no other step changes the buffer or the scheduled insertions.
C31_PasteInsertsExactlyOnce ==
    [][/\ pastes =>
              IF \/ ~settings.autoTranslateOnPaste
                 \/ trim(call'.word) = <<>>
                 \/ isShavianScript(call'.word)
                 \/ ~call'.sourceMode
              THEN /\ timers' = timers
                   /\ doc' = IF call'.sourceMode
                             THEN withSelectionReplaced(call'.word) ELSE doc
              ELSE /\ timers' = Append(timers, Timer("handlePasteTranslation",
                                                      call'.word))
                   /\ doc' = doc
       /\ handlerInserts =>
              LET pastedText == Head(timers).arg
                  output == join([i \in 1..Len(translation'.words) |->
                                     emitted(translation'.words[i])])
              IN /\ join(translation'.words) = pastedText
                 /\ doc' = withSelectionReplaced(IF output # pastedText
                                                  THEN output ELSE pastedText)
       /\ (~pastes /\ ~handlerInserts) => (doc' = doc /\ timers' = timers)]_vars

\* Two pastes were preempted and inserted by the handler, one translated and
\* one left as it was pasted.
C31_Witness ==
    /\ timers = <<>>
    /\ call.n = 2
    /\ Len(doc) >= 2
    /\ \E i, j \in 1..Len(notices) :
           /\ notices[i].kind = "Text auto-translated (Latin -> Shavian)"
           /\ notices[j].kind = "No translatable words found"

====
